---- MODULE Spec2Model ----
(***************************************************************************)
(* Model of the decision-context assembly pipeline of the trading bot      *)
(* (src/src/ai/prompt_builder.py): the indicator engine                    *)
(* (_build_interval_block, _compute_kdj_series, _compute_boll_series), the *)
(* history aggregator (_group_history_by_symbol) and the payload assembler *)
(* (build_multi_symbol_analysis_payload).                                  *)
(*                                                                         *)
(* Floats are modelled as tagged records [k, v]: k is "fin" for a finite   *)
(* number (v an integer in the fixed-point unit of the quantity), or      *)
(* "nan", "pinf", "ninf" for the IEEE special values (v = 0).              *)
(* Prices are integers in ticks of 1/PRICE_SCALE.                          *)
(***************************************************************************)
EXTENDS Integers, Sequences, FiniteSets, TLC

VARIABLES
    data,             \* the timeframe entry handed to _build_interval_block
    price_dp,         \* the symbol's price precision (symbol_precisions)
    block,            \* the TimeframeBlock built from df
    decision_history, \* the flat decision log handed to the aggregator
    max_per_symbol,   \* the aggregator's window size N
    grouped,          \* the aggregator's result
    call,             \* the assembler's input document
    result,           \* the assembler's outcome: a payload or an exception
    payloads,         \* the outcomes of the analysis cycles run so far
    max_history,      \* TradingBot.max_history
    history_file,     \* the lines of the history file on disk
    saved,            \* the number of save_decision calls so far
    exchange,         \* the exchange account: position, open orders, requests
    pc                \* "input" before the operation has run, "done" after

vars == <<data, price_dp, block, decision_history, max_per_symbol, grouped, call,
          result, payloads, max_history, history_file, saved, exchange, pc>>

-----------------------------------------------------------------------------
(* Bounds of the model *)

\* bar frames of 0..MaxBars rows
MaxBars == 31
\* decision logs of 0..MaxLog records
MaxLog == 3
\* window sizes 0..MaxWindow
MaxWindow == 2

(* Program constants *)

\* tail(10), [-10:]
TAIL == 10
\* len(df) >= 30 guard of RSI/MACD
RSI_MIN_BARS == 30
\* rolling(window=14)
RSI_WINDOW == 14
\* _compute_kdj_series(df, n=9)
KDJ_N == 9
\* _compute_boll_series(df, symbol, window=20)
BOLL_WINDOW == 20
\* ewm spans
EMA_FAST == 12
EMA_SLOW == 26
EMA_SIGNAL == 9

-----------------------------------------------------------------------------
(* Floats *)

Fin(v) == [k |-> "fin", v |-> v]
NaN == [k |-> "nan", v |-> 0]
PInf == [k |-> "pinf", v |-> 0]
NInf == [k |-> "ninf", v |-> 0]
IsFinite(x) == x.k = "fin"

Max2(a, b) == IF a >= b THEN a ELSE b
Min2(a, b) == IF a <= b THEN a ELSE b
Abs(a) == IF a >= 0 THEN a ELSE -a

\* a / b rounded to the nearest integer, ties to even (b > 0): Python's round()
RoundDiv(a, b) ==
    LET q == a \div b
        r == a % b
    IN  IF 2 * r < b THEN q
        ELSE IF 2 * r > b THEN q + 1
        ELSE IF q % 2 = 0 THEN q ELSE q + 1

RECURSIVE Pow10(_)
Pow10(n) == IF n <= 0 THEN 1 ELSE 10 * Pow10(n - 1)

(* Fixed-point units *)

\* ticks per 1.0 of price
PRICE_SCALE == Pow10(4)
\* sub-units per tick carried by the EMA recurrences
EMA_SUB == Pow10(2)
\* units per 1.0 of K, D, J and RSV
KDJ_SCALE == Pow10(3)
\* units per 1.0 of RSI before rounding
RSI_SCALE == Pow10(3)

RECURSIVE SqrtSearch(_, _, _)
\* the largest r in lo..hi with r*r <= x (lo*lo <= x)
SqrtSearch(x, lo, hi) ==
    IF lo >= hi THEN lo
    ELSE LET mid == (lo + hi + 1) \div 2
         IN  IF mid * mid <= x THEN SqrtSearch(x, mid, hi)
             ELSE SqrtSearch(x, lo, mid - 1)

\* sqrt(x) to the nearest integer
Sqrt(x) ==
    LET r == SqrtSearch(x, 0, 40000)
    IN  IF x - r * r <= r THEN r ELSE r + 1

\* a slice that keeps the first n entries instead of the last n
SliceLast_First(s, n) ==
    IF n >= Len(s) THEN s ELSE SubSeq(s, 1, n)

\* list[-n:] of Python: the whole list when n = 0 (-0 is 0)
SliceLast(s, n) ==
    IF n = 0 \/ n >= Len(s) THEN s
    ELSE SubSeq(s, Len(s) - n + 1, Len(s))

\* head(n) in place of tail(n)
TailN_Head(s, n) ==
    IF n >= Len(s) THEN s ELSE SubSeq(s, 1, n)

\* Series.tail(n) of pandas
TailN(s, n) ==
    IF n >= Len(s) THEN s ELSE SubSeq(s, Len(s) - n + 1, Len(s))

-----------------------------------------------------------------------------
(* Numeric coercions of PromptBuilder.                                      *)
(* An input value is a float record or [k |-> "none"] (None, a missing key  *)
(* read without default) or [k |-> "str"] (a non-numeric string).           *)

NoneVal == [k |-> "none", v |-> 0]
StrVal == [k |-> "str", v |-> 0]

\* float(x) raises for None and for a non-numeric string
FloatRaises(x) == x.k \in {"none", "str"}

\* round(v, n) of a float held in units of 1/from (a power of 10): the
\* result is in units of 1/10^n; nan and the infinities come back unchanged
PyRound(x, from, n) ==
    IF x.k # "fin" THEN x
    ELSE IF from >= Pow10(n) THEN Fin(RoundDiv(x.v, from \div Pow10(n)))
    ELSE Fin(x.v * (Pow10(n) \div from))

\* _to_float(x, default)
ToFloat(x, default) ==
    IF FloatRaises(x) THEN default
    ELSE IF IsFinite(x) THEN x ELSE default

\* _round(x, n)
Round(x, from, n) ==
    IF FloatRaises(x) THEN Fin(0) ELSE PyRound(x, from, n)

\* _round_price(symbol, x) for a price held in units of 1/sub tick: the
\* result is in ticks (the model carries price precisions up to 1 tick)
RoundPrice(x, sub, dp) ==
    IF FloatRaises(x) THEN Fin(0)
    ELSE IF x.k = "fin"
         THEN LET m == IF Pow10(dp) < PRICE_SCALE THEN PRICE_SCALE \div Pow10(dp) ELSE 1
              IN  Fin(RoundDiv(x.v, m * sub) * m)
         ELSE x

-----------------------------------------------------------------------------
(* Bar frames.  A frame is None or a DataFrame with the columns open, high, *)
(* low, close, volume that get_multi_timeframe_data selects; its rows are  *)
(* bars [open, high, low, close] in ticks, oldest first.                   *)

\* the price level, the move per bar and the wick of the generated frames
BASE == 20000
STEP == 30
WICK == 40

Shapes == {"flat", "rising", "falling", "zigzag"}

CloseAt(shape, i) ==
    CASE shape = "flat" -> BASE
      [] shape = "rising" -> BASE + STEP * i
      [] shape = "falling" -> BASE - STEP * i
      [] OTHER -> BASE + STEP * ((i * i) % 7)

BarAt(shape, wick, i) ==
    LET c == CloseAt(shape, i)
        o == IF i = 1 THEN c ELSE CloseAt(shape, i - 1)
    IN  [open |-> o, high |-> Max2(o, c) + wick, low |-> Min2(o, c) - wick, close |-> c]

MakeBars(n, shape, wick) == [i \in 1..n |-> BarAt(shape, wick, i)]

NoFrame == [isNone |-> TRUE, rows |-> <<>>]
Frame(rows) == [isNone |-> FALSE, rows |-> rows]

Column(rows, name) ==
    [i \in 1..Len(rows) |->
        CASE name = "open" -> rows[i].open
          [] name = "high" -> rows[i].high
          [] name = "low" -> rows[i].low
          [] OTHER -> rows[i].close]

RECURSIVE SumRange(_, _, _)
SumRange(s, lo, hi) == IF lo > hi THEN 0 ELSE s[hi] + SumRange(s, lo, hi - 1)

RECURSIVE MinRange(_, _, _)
MinRange(s, lo, hi) == IF lo >= hi THEN s[lo] ELSE Min2(s[hi], MinRange(s, lo, hi - 1))

RECURSIVE MaxRange(_, _, _)
MaxRange(s, lo, hi) == IF lo >= hi THEN s[lo] ELSE Max2(s[hi], MaxRange(s, lo, hi - 1))

-----------------------------------------------------------------------------
(* RSI: _build_interval_block, the first try block *)

\* delta.where(delta > 0, 0): the first delta is NaN and is replaced by 0
GainRaw(c) == [i \in 1..Len(c) |-> IF i > 1 /\ c[i] - c[i-1] > 0 THEN c[i] - c[i-1] ELSE 0]
\* -delta.where(delta < 0, 0)
LossRaw(c) == [i \in 1..Len(c) |-> IF i > 1 /\ c[i] - c[i-1] < 0 THEN c[i-1] - c[i] ELSE 0]

\* 100 - 100 / (1 + gain / loss) at bar i, in units of 1/RSI_SCALE.  The two
\* rolling means are NaN before the window is full; gain / 0 is +inf for
\* gain > 0 (RSI 100) and NaN for 0 / 0.
RsiAt(c, i) ==
    IF i < RSI_WINDOW THEN NaN
    ELSE LET g == SumRange(GainRaw(c), i - RSI_WINDOW + 1, i)
             l == SumRange(LossRaw(c), i - RSI_WINDOW + 1, i)
         IN  IF l = 0 THEN (IF g = 0 THEN NaN ELSE Fin(100 * RSI_SCALE))
             ELSE Fin(100 * RSI_SCALE - RoundDiv(100 * RSI_SCALE * l, g + l))

RsiFull(c) == [i \in 1..Len(c) |-> RsiAt(c, i)]

\* [self._round(x, 1) for x in rsi_full.tail(10).tolist()]
RsiSeries(c) ==
    LET t == TailN(RsiFull(c), TAIL)
    IN  [j \in 1..Len(t) |-> Round(t[j], RSI_SCALE, 1)]

-----------------------------------------------------------------------------
(* MACD: _build_interval_block, the second try block *)

RECURSIVE EwmAcc(_, _, _)
\* Series.ewm(span, adjust=False).mean(): y[1] = x[1],
\* y[i] = (1 - a) * y[i-1] + a * x[i] with a = 2 / (span + 1)
EwmAcc(x, span, acc) ==
    IF Len(acc) >= Len(x) THEN acc
    ELSE LET i == Len(acc) + 1
             y == IF i = 1 THEN x[1]
                  ELSE RoundDiv((span - 1) * acc[i-1] + 2 * x[i], span + 1)
         IN  EwmAcc(x, span, Append(acc, y))

Ewm(x, span) == EwmAcc(x, span, <<>>)

\* ema_fast - ema_slow, in units of 1/EMA_SUB tick
MacdLine(c) ==
    LET x == [i \in 1..Len(c) |-> c[i] * EMA_SUB]
        f == Ewm(x, EMA_FAST)
        s == Ewm(x, EMA_SLOW)
    IN  [i \in 1..Len(c) |-> f[i] - s[i]]

\* macd_line - signal_line
MacdHist(c) ==
    LET m == MacdLine(c)
        g == Ewm(m, EMA_SIGNAL)
    IN  [i \in 1..Len(c) |-> m[i] - g[i]]

\* [self._round(x, 4) for x in <series>.tail(10).tolist()]
Round4Tail(full) ==
    LET t == TailN(full, TAIL)
    IN  [j \in 1..Len(t) |-> Round(Fin(t[j]), PRICE_SCALE * EMA_SUB, 4)]

-----------------------------------------------------------------------------
(* KDJ: _compute_kdj_series *)

\* rsv.fillna(50.0).clip(0, 100) at bar i, in units of 1/KDJ_SCALE: the
\* rolling min/max are NaN before n bars, and 0/0 is NaN
RsvAt(rows, n, i) ==
    IF i < n THEN 50 * KDJ_SCALE
    ELSE LET low_n == MinRange(Column(rows, "low"), i - n + 1, i)
             high_n == MaxRange(Column(rows, "high"), i - n + 1, i)
             num == rows[i].close - low_n
             rng == high_n - low_n
         IN  IF rng = 0
             THEN (IF num = 0 THEN 50 * KDJ_SCALE
                   ELSE IF num > 0 THEN 100 * KDJ_SCALE ELSE 0)
             ELSE Max2(0, Min2(100 * KDJ_SCALE, RoundDiv(num * 100 * KDJ_SCALE, rng)))

RECURSIVE KdjLoop(_, _, _, _)
\* the for loop over rsv, carrying (k_prev, d_prev)
KdjLoop(rsv, k_prev, d_prev, acc) ==
    IF Len(acc) >= Len(rsv) THEN acc
    ELSE LET val == rsv[Len(acc) + 1]
             k_val == RoundDiv(2 * k_prev + val, 3)
             d_val == RoundDiv(2 * d_prev + k_val, 3)
             j_val == 3 * k_val - 2 * d_val
         IN  KdjLoop(rsv, k_val, d_val, Append(acc, [k |-> k_val, d |-> d_val, j |-> j_val]))

\* a recurrence seeded with K = D = 0
KdjFull_ZeroSeed(rows, n) ==
    KdjLoop([i \in 1..Len(rows) |-> RsvAt(rows, n, i)], 0, 0, <<>>)

\* k_list, d_list, j_list zipped: one triple per bar, seeded with K = D = 50
KdjFull(rows, n) ==
    KdjLoop([i \in 1..Len(rows) |-> RsvAt(rows, n, i)], 50 * KDJ_SCALE, 50 * KDJ_SCALE, <<>>)

\* {"k": round(k, 1), "d": round(d, 1), "j": round(j, 1)}
KdjRounded(t) ==
    [k |-> PyRound(Fin(t.k), KDJ_SCALE, 1),
     d |-> PyRound(Fin(t.d), KDJ_SCALE, 1),
     j |-> PyRound(Fin(t.j), KDJ_SCALE, 1)]

\* _compute_kdj_series(df, n)
ComputeKdjSeries(frame, n) ==
    IF frame.isNone \/ Len(frame.rows) < n THEN <<>>
    ELSE LET t == SliceLast(KdjFull(frame.rows, n), TAIL)
         IN  [i \in 1..Len(t) |-> KdjRounded(t[i])]

-----------------------------------------------------------------------------
(* Bollinger bands: _compute_boll_series *)

\* closes.rolling(window).mean() at bar i, in units of 1/EMA_SUB tick
SmaAt(c, window, i) ==
    IF i < window THEN NaN
    ELSE Fin(RoundDiv(SumRange(c, i - window + 1, i) * EMA_SUB, window))

\* 2 * closes.rolling(window).std() (sample, ddof = 1) at bar i, in units of
\* 1/EMA_SUB tick
TwoStdAt(c, window, i) ==
    IF i < window THEN NaN
    ELSE LET lo == MinRange(c, i - window + 1, i)
             d == [m \in 1..window |-> c[i - window + m] - lo]
             sq == [m \in 1..window |-> d[m] * d[m]]
             s1 == SumRange(d, 1, window)
             num == window * SumRange(sq, 1, window) - s1 * s1
         IN  Fin(20 * Sqrt(RoundDiv(100 * num, window * (window - 1))))

FAdd(x, y) == IF IsFinite(x) /\ IsFinite(y) THEN Fin(x.v + y.v) ELSE NaN
FSub(x, y) == IF IsFinite(x) /\ IsFinite(y) THEN Fin(x.v - y.v) ELSE NaN

\* the band of bar i before rounding: sma + 2 std, sma, sma - 2 std
BollAt(c, window, i) ==
    [upper |-> FAdd(SmaAt(c, window, i), TwoStdAt(c, window, i)),
     middle |-> SmaAt(c, window, i),
     lower |-> FSub(SmaAt(c, window, i), TwoStdAt(c, window, i))]

\* the triple appended for one bar, each field through _round_price
BollRounded(t, dp) ==
    [upper |-> RoundPrice(t.upper, EMA_SUB, dp),
     middle |-> RoundPrice(t.middle, EMA_SUB, dp),
     lower |-> RoundPrice(t.lower, EMA_SUB, dp)]

\* _compute_boll_series(df, symbol, window)
ComputeBollSeries(frame, dp, window) ==
    IF frame.isNone \/ Len(frame.rows) < window THEN <<>>
    ELSE LET c == Column(frame.rows, "close")
             t == TailN([i \in 1..Len(c) |-> BollAt(c, window, i)], TAIL)
         IN  [i \in 1..Len(t) |-> BollRounded(t[i], dp)]

-----------------------------------------------------------------------------
(* Candlestick patterns: _detect_candlestick_patterns.  rng is             *)
(* max(1e-9, h - l): a range of 0 ticks stands for the epsilon, which is   *)
(* below every positive multiple of a tick.                                *)

\* a strict comparison in place of <=
LeFrac_Strict(x, rng, den) == IF rng > 0 THEN den * x < rng ELSE x < 0

\* x <= rng / den
LeFrac(x, rng, den) == IF rng > 0 THEN den * x <= rng ELSE x <= 0
\* x >= rng / den
GeFrac(x, rng, den) == IF rng > 0 THEN den * x >= rng ELSE x > 0

SelectNames(names, keep) == SelectSeq(names, LAMBDA p: p \in keep)

\* a Hammer test that accepts close = open
DetectCandlestickPatterns_HammerFlat(ohlc_tail) ==
    IF Len(ohlc_tail) = 0 THEN <<>>
    ELSE LET last == ohlc_tail[Len(ohlc_tail)]
             o == last.O
             h == last.H
             l == last.L
             c == last.C
             rng == h - l
             b == Abs(c - o)
             up == h - Max2(o, c)
             lo == Min2(o, c) - l
             two == Len(ohlc_tail) >= 2
             prev == ohlc_tail[IF two THEN Len(ohlc_tail) - 1 ELSE 1]
             o2 == prev.O
             c2 == prev.C
             keep ==
                 (IF LeFrac(b, rng, 10) THEN {"Doji"} ELSE {})
                 \cup (IF GeFrac(lo, rng, 2) /\ LeFrac(up, rng, 5) /\ c >= o
                       THEN {"Hammer"} ELSE {})
                 \cup (IF GeFrac(up, rng, 2) /\ LeFrac(lo, rng, 5) /\ c < o
                       THEN {"ShootingStar"} ELSE {})
                 \cup (IF two /\ c2 < o2 /\ c > o /\ c >= Max2(o2, c2) /\ o <= Min2(o2, c2)
                       THEN {"BullishEngulfing"} ELSE {})
                 \cup (IF two /\ c2 > o2 /\ c < o /\ o >= Max2(o2, c2) /\ c <= Min2(o2, c2)
                       THEN {"BearishEngulfing"} ELSE {})
         IN  SelectNames(<<"Doji", "Hammer", "ShootingStar",
                           "BullishEngulfing", "BearishEngulfing">>, keep)

\* _detect_candlestick_patterns(ohlc_tail)
DetectCandlestickPatterns(ohlc_tail) ==
    IF Len(ohlc_tail) = 0 THEN <<>>
    ELSE LET last == ohlc_tail[Len(ohlc_tail)]
             o == last.O
             h == last.H
             l == last.L
             c == last.C
             rng == h - l
             b == Abs(c - o)
             up == h - Max2(o, c)
             lo == Min2(o, c) - l
             two == Len(ohlc_tail) >= 2
             prev == ohlc_tail[IF two THEN Len(ohlc_tail) - 1 ELSE 1]
             o2 == prev.O
             c2 == prev.C
             keep ==
                 (IF LeFrac(b, rng, 10) THEN {"Doji"} ELSE {})
                 \cup (IF GeFrac(lo, rng, 2) /\ LeFrac(up, rng, 5) /\ c > o
                       THEN {"Hammer"} ELSE {})
                 \cup (IF GeFrac(up, rng, 2) /\ LeFrac(lo, rng, 5) /\ c < o
                       THEN {"ShootingStar"} ELSE {})
                 \cup (IF two /\ c2 < o2 /\ c > o /\ c >= Max2(o2, c2) /\ o <= Min2(o2, c2)
                       THEN {"BullishEngulfing"} ELSE {})
                 \cup (IF two /\ c2 > o2 /\ c < o /\ o >= Max2(o2, c2) /\ c <= Min2(o2, c2)
                       THEN {"BearishEngulfing"} ELSE {})
         IN  SelectNames(<<"Doji", "Hammer", "ShootingStar",
                           "BullishEngulfing", "BearishEngulfing">>, keep)

-----------------------------------------------------------------------------
(* _build_interval_block *)

\* the rows of df.tail(10), prices rounded to the symbol's precision
OhlcList(frame, dp) ==
    IF frame.isNone THEN <<>>
    ELSE LET t == TailN(frame.rows, TAIL)
         IN  [i \in 1..Len(t) |->
                [O |-> RoundPrice(Fin(t[i].open), 1, dp).v,
                 H |-> RoundPrice(Fin(t[i].high), 1, dp).v,
                 L |-> RoundPrice(Fin(t[i].low), 1, dp).v,
                 C |-> RoundPrice(Fin(t[i].close), 1, dp).v]]

\* the guard without its bar-count test
HasRsiHistory_NoCount(frame) == ~frame.isNone

\* rsi / macd / histogram are computed only behind
\* df is not None and len(df) >= 30 and "close" in df
HasRsiHistory(frame) == ~frame.isNone /\ Len(frame.rows) >= RSI_MIN_BARS

NoBlock ==
    [built |-> FALSE, ema20 |-> Fin(0), atr14 |-> Fin(0), rsi |-> <<>>, macd |-> <<>>,
     histogram |-> <<>>, kdj |-> <<>>, boll |-> <<>>, patterns |-> <<>>]

\* the block returned for a timeframe entry; NoBlock stands for None
BuildIntervalBlock(d, dp) ==
    IF d.empty THEN NoBlock
    ELSE LET frame == d.dataframe
             c == Column(frame.rows, "close")
             hist == HasRsiHistory(frame)
         IN  [built |-> TRUE,
              ema20 |-> RoundPrice(d.indicators.ema_20, 1, dp),
              atr14 |-> RoundPrice(d.indicators.atr_14, 1, dp),
              rsi |-> IF hist THEN RsiSeries(c) ELSE <<>>,
              macd |-> IF hist THEN Round4Tail(MacdLine(c)) ELSE <<>>,
              histogram |-> IF hist THEN Round4Tail(MacdHist(c)) ELSE <<>>,
              kdj |-> ComputeKdjSeries(frame, KDJ_N),
              boll |-> ComputeBollSeries(frame, dp, BOLL_WINDOW),
              patterns |-> DetectCandlestickPatterns(OhlcList(frame, dp))]

-----------------------------------------------------------------------------
(* The indicator engine as a state machine: a timeframe entry is drawn,    *)
(* then _build_interval_block runs on it.                                  *)

Indicators ==
    {[ema_20 |-> Fin(BASE + 17), atr_14 |-> Fin(123)],
     [ema_20 |-> NaN, atr_14 |-> NoneVal]}

Frames ==
    {NoFrame} \cup
    {Frame(MakeBars(n, shape, wick)) : n \in 0..MaxBars, shape \in Shapes, wick \in {0, WICK}}

EmptyData == [empty |-> TRUE, indicators |-> [ema_20 |-> Fin(0), atr_14 |-> Fin(0)],
              dataframe |-> NoFrame]

DataInputs ==
    {EmptyData} \cup
    {[empty |-> FALSE, indicators |-> ind, dataframe |-> f] : ind \in Indicators, f \in Frames}

PriceDps == {2, 3}

NoCall == [symbols |-> <<>>]
NoResult == [raised |-> FALSE, exc |-> ""]
NoExchange == [positionAmt |-> 0, open_orders |-> 0, requests |-> <<>>]

InitBlock ==
    /\ data \in DataInputs
    /\ price_dp \in PriceDps
    /\ block = NoBlock
    /\ decision_history = <<>>
    /\ max_per_symbol = 0
    /\ grouped = <<>>
    /\ call = NoCall
    /\ result = NoResult
    /\ payloads = <<>>
    /\ max_history = 0
    /\ history_file = <<>>
    /\ saved = 0
    /\ exchange = NoExchange
    /\ pc = "input"

BuildBlock ==
    /\ pc = "input"
    /\ block' = BuildIntervalBlock(data, price_dp)
    /\ pc' = "done"
    /\ UNCHANGED <<payloads, max_history, history_file, saved, exchange, data,
                   price_dp, decision_history, max_per_symbol, grouped, call, result>>

NextBlock == BuildBlock

SpecBlock == InitBlock /\ [][NextBlock]_vars

\* the bars of the frame the block was built from
Bars == IF data.dataframe.isNone THEN 0 ELSE Len(data.dataframe.rows)
Built == pc = "done" /\ block.built

Rows == data.dataframe.rows
Closes == Column(Rows, "close")

-----------------------------------------------------------------------------
(* Claims about the indicator series *)

\* C3: each of the rsi, macd, histogram, kdj and boll series of a block has
\* at most 10 entries, and none when the frame has fewer bars than the
\* series needs (30 for rsi/macd/histogram, 9 for kdj, 20 for boll).
C3_SeriesBounded ==
    Built =>
        /\ Len(block.rsi) <= 10 /\ Len(block.macd) <= 10 /\ Len(block.histogram) <= 10
        /\ Len(block.kdj) <= 10 /\ Len(block.boll) <= 10
        /\ Bars < 30 => Len(block.rsi) = 0 /\ Len(block.macd) = 0 /\ Len(block.histogram) = 0
        /\ Bars < 9 => Len(block.kdj) = 0
        /\ Bars < 20 => Len(block.boll) = 0

\* a block of 29 bars: kdj and boll are filled and rsi is withheld
C3_Witness ==
    Built /\ Bars = 29 /\ Len(block.rsi) = 0 /\ Len(block.kdj) = 10 /\ Len(block.boll) = 10

\* C4 as stated: with at least 9 bars the kdj series has exactly 10 triples.
C4_KdjTenFromNine ==
    (Built /\ Bars >= 9) => Len(block.kdj) = 10

\* C4, amended: with at least 9 bars the kdj series has min(10, bars)
\* triples (10 from 10 bars on, 9 for exactly 9 bars), which are the triples
\* of the most recent bars, oldest first.
C4_KdjTail ==
    (Built /\ Bars >= 9) =>
        LET full == KdjFull(Rows, 9)
            m == Min2(Bars, 10)
        IN  /\ Len(block.kdj) = m
            /\ \A j \in 1..m : block.kdj[j] = KdjRounded(full[Bars - m + j])

\* a frame of more than 10 bars whose oldest and newest emitted triples differ
C4_Witness ==
    Built /\ Bars > 10 /\ Len(block.kdj) = 10 /\ block.kdj[1] # block.kdj[10]

\* C5: with at least 30 bars rsi, macd and histogram have exactly 10 values,
\* with at least 20 bars boll has exactly 10 triples, and entry j is the value
\* of bar (bars - 10 + j): the 10 most recent bars, oldest first.
C5_LastTenInBarOrder ==
    /\ (Built /\ Bars >= 30) =>
          LET macd == MacdLine(Closes)
              hist == MacdHist(Closes)
          IN  /\ Len(block.rsi) = 10 /\ Len(block.macd) = 10 /\ Len(block.histogram) = 10
              /\ \A j \in 1..10 :
                    /\ block.rsi[j] = Round(RsiAt(Closes, Bars - 10 + j), RSI_SCALE, 1)
                    /\ block.macd[j] = Round(Fin(macd[Bars - 10 + j]), PRICE_SCALE * EMA_SUB, 4)
                    /\ block.histogram[j] = Round(Fin(hist[Bars - 10 + j]), PRICE_SCALE * EMA_SUB, 4)
    /\ (Built /\ Bars >= 20) =>
          /\ Len(block.boll) = 10
          /\ \A j \in 1..10 :
                block.boll[j] = BollRounded(BollAt(Closes, 20, Bars - 10 + j), price_dp)

\* a frame of more than 30 bars whose oldest and newest emitted values differ
C5_Witness ==
    /\ Built /\ Bars > 30
    /\ Len(block.rsi) = 10 /\ Len(block.boll) = 10
    /\ block.macd[1] # block.macd[10]
    /\ block.boll[1] # block.boll[10]

FiniteTriple(t, fields) == \A f \in fields : IsFinite(t[f])

\* C6: every entry of an emitted series is a finite value computed from a
\* full window of history; in particular every boll triple is finite and has
\* 20 closes behind it.
C6_NoPlaceholderEntries ==
    Built =>
        /\ \A j \in 1..Len(block.rsi) : IsFinite(block.rsi[j])
        /\ \A j \in 1..Len(block.macd) : IsFinite(block.macd[j])
        /\ \A j \in 1..Len(block.histogram) : IsFinite(block.histogram[j])
        /\ \A j \in 1..Len(block.kdj) : FiniteTriple(block.kdj[j], {"k", "d", "j"})
        /\ \A j \in 1..Len(block.boll) :
              /\ FiniteTriple(block.boll[j], {"upper", "middle", "lower"})
              /\ Bars - Len(block.boll) + j >= 20

\* the RSV of every bar of the frame is 50
RsvAllFifty == \A i \in 1..Bars : RsvAt(Rows, KDJ_N, i) = 50 * KDJ_SCALE

\* C18: when the RSV is 50 for every bar, every emitted k, d and j is 50.0.
C18_KdjFixedPoint ==
    (Built /\ RsvAllFifty) =>
        \A i \in 1..Len(block.kdj) :
            /\ block.kdj[i].k = Fin(500)
            /\ block.kdj[i].d = Fin(500)
            /\ block.kdj[i].j = Fin(500)

\* ten triples emitted for a frame of nine bars or more whose RSV is 50
\* throughout, bars with a real high-low range included
C18_Witness ==
    /\ Built /\ RsvAllFifty
    /\ Bars >= KDJ_N /\ Rows[Bars].high > Rows[Bars].low
    /\ Len(block.kdj) >= 9
    /\ block.kdj[1].k = Fin(500)

-----------------------------------------------------------------------------
(* The history aggregator: _group_history_by_symbol.                       *)
(* A decision record is [timestamp, symbol, reason, confidence, leverage,  *)
(* price].  A timestamp is [ok, t]: ok says datetime.fromisoformat(ts)     *)
(* .timestamp() succeeds and t is then its value in seconds since the      *)
(* epoch (negative before 1970); a record's reason is its own text, here   *)
(* its position in the log.  A symbol of "" stands for a missing one.      *)

\* units per 1.0 of a confidence
CONF_SCALE == Pow10(2)

(* Texts.  A str is a sequence of one-character strings. *)

DigitOf ==
    ("0" :> 0) @@ ("1" :> 1) @@ ("2" :> 2) @@ ("3" :> 3) @@ ("4" :> 4) @@
    ("5" :> 5) @@ ("6" :> 6) @@ ("7" :> 7) @@ ("8" :> 8) @@ ("9" :> 9)

LowerChars == <<"a", "b", "c", "d", "e", "f", "g", "h", "i", "j", "k", "l", "m",
                "n", "o", "p", "q", "r", "s", "t", "u", "v", "w", "x", "y", "z">>
UpperChars == <<"A", "B", "C", "D", "E", "F", "G", "H", "I", "J", "K", "L", "M",
                "N", "O", "P", "Q", "R", "S", "T", "U", "V", "W", "X", "Y", "Z">>

\* str.upper()
Upper(s) ==
    [i \in 1..Len(s) |->
        IF \E j \in 1..26 : LowerChars[j] = s[i]
        THEN UpperChars[CHOOSE j \in 1..26 : LowerChars[j] = s[i]]
        ELSE s[i]]

RECURSIVE Strip(_)
\* str.strip(): leading and trailing blanks removed
Strip(s) ==
    IF s = <<>> THEN s
    ELSE IF s[1] = " " THEN Strip(Tail(s))
    ELSE IF s[Len(s)] = " " THEN Strip(SubSeq(s, 1, Len(s) - 1))
    ELSE s

AllDigits(s) == \A i \in 1..Len(s) : s[i] \in DOMAIN DigitOf

RECURSIVE DigitsValue(_)
\* the number written by a sequence of digits (0 for none)
DigitsValue(s) ==
    IF s = <<>> THEN 0
    ELSE 10 * DigitsValue(SubSeq(s, 1, Len(s) - 1)) + DigitOf[s[Len(s)]]

\* the position of the first character of s that is in chars, 0 if none
FirstOf(s, chars) ==
    IF \E i \in 1..Len(s) : s[i] \in chars
    THEN CHOOSE i \in 1..Len(s) : s[i] \in chars /\ \A j \in 1..(i - 1) : s[j] \notin chars
    ELSE 0

BadNumber == [k |-> "bad", neg |-> FALSE, coef |-> 0, exp |-> 0]

\* the numeric literal grammar shared by Decimal(text) and float(text):
\* blanks stripped, a sign, then nan / inf / infinity in any case or
\* digits[.digits][e[sign]digits]; the result is (-1)^neg * coef * 10^exp,
\* "bad" when the text is no number (InvalidOperation, ValueError)

\* the literal read from its parts: the upper-cased text behind the sign,
\* the digits before and after the point, and the exponent
ParseFields(neg, word, ipart, fpart, hasExp, edigits, eneg) ==
    IF word = <<"N", "A", "N">> THEN [k |-> "nan", neg |-> neg, coef |-> 0, exp |-> 0]
    ELSE IF word \in {<<"I", "N", "F">>, <<"I", "N", "F", "I", "N", "I", "T", "Y">>}
    THEN [k |-> "inf", neg |-> neg, coef |-> 0, exp |-> 0]
    ELSE IF /\ AllDigits(ipart) /\ AllDigits(fpart)
            /\ Len(ipart) + Len(fpart) >= 1
            /\ (hasExp => (AllDigits(edigits) /\ edigits # <<>>))
    THEN [k |-> "dec", neg |-> neg, coef |-> DigitsValue(ipart \o fpart),
          exp |-> (IF ~hasExp THEN 0
                   ELSE IF eneg THEN 0 - DigitsValue(edigits)
                   ELSE DigitsValue(edigits)) - Len(fpart)]
    ELSE BadNumber

\* a text without its leading sign
Unsigned(t) == IF t # <<>> /\ t[1] \in {"+", "-"} THEN Tail(t) ELSE t

\* the text before position at (the whole text when at = 0), and behind it
TextBefore(t, at) == IF at = 0 THEN t ELSE SubSeq(t, 1, at - 1)
TextBehind(t, at) == IF at = 0 THEN <<>> ELSE SubSeq(t, at + 1, Len(t))

\* mantissa and exponent texts split into their fields
ParseParts(neg, word, mant, hasExp, expo) ==
    ParseFields(neg, word,
                TextBefore(mant, FirstOf(mant, {"."})), TextBehind(mant, FirstOf(mant, {"."})),
                hasExp, Unsigned(expo), expo # <<>> /\ expo[1] = "-")

\* the text behind the sign split at its first e or E
ParseBody(neg, body) ==
    ParseParts(neg, Upper(body),
               TextBefore(body, FirstOf(body, {"e", "E"})),
               FirstOf(body, {"e", "E"}) # 0,
               TextBehind(body, FirstOf(body, {"e", "E"})))

ParseStripped(t) == ParseBody(t # <<>> /\ t[1] = "-", Unsigned(t))

ParseNumber(text) == ParseStripped(Strip(text))

\* the float of a parsed literal in units of 1/CONF_SCALE (literals of at
\* most two decimals are exact); "raises" for a text that is no number
FloatOfNumber(d) ==
    CASE d.k = "bad" -> [k |-> "raises", v |-> 0]
      [] d.k = "nan" -> NaN
      [] d.k = "inf" -> IF d.neg THEN NInf ELSE PInf
      [] OTHER ->
            IF d.exp >= -2 THEN Fin((IF d.neg THEN -1 ELSE 1) * d.coef * Pow10(d.exp + 2))
            ELSE Fin((IF d.neg THEN -1 ELSE 1) * RoundDiv(d.coef, Pow10(-2 - d.exp)))

\* float(text)
FloatOfText(text) == FloatOfNumber(ParseNumber(text))

(* Confidence values.  k is "fin", "nan", "pinf", "ninf" for an int or a   *)
(* float (v in units of 1/CONF_SCALE), "bool" (v is 0 or 1), "str" (s is   *)
(* the text), "none", or "list" for a value of any other type.             *)

StrConf(label) == [k |-> "str", v |-> 0, s |-> label]
NumConf(v) == [k |-> "fin", v |-> v, s |-> <<>>]
NoneConf == [k |-> "none", v |-> 0, s |-> <<>>]
BoolConf(b) == [k |-> "bool", v |-> IF b THEN 1 ELSE 0, s |-> <<>>]
ListConf == [k |-> "list", v |-> 0, s |-> <<>>]
SpecialConf(kind) == [k |-> kind, v |-> 0, s |-> <<>>]

HIGH == <<"H", "I", "G", "H">>
MEDIUM == <<"M", "E", "D", "I", "U", "M">>
LOW == <<"L", "O", "W">>

\* 0.0 <= v <= 1.0 (false for nan)
InUnit(x) == x.k = "fin" /\ 0 <= x.v /\ x.v <= CONF_SCALE

\* the string branch: cs is c.strip().upper(), read is float(c)
NormText(cs, read) ==
    CASE cs = HIGH -> Fin(80)
      [] cs = MEDIUM -> Fin(60)
      [] cs = LOW -> Fin(40)
      [] OTHER -> IF InUnit(read) THEN read ELSE Fin(50)

\* the numeric branch without its range test
NormNumber_NoRange(v) == IF v.k = "fin" THEN v ELSE Fin(50)

\* the numeric branch: v is float(c)
NormNumber(v) == IF InUnit(v) THEN v ELSE Fin(50)

\* float(c) of an int, a float or a bool
FloatOfConf(c) == IF c.k = "bool" THEN Fin(c.v * CONF_SCALE) ELSE [k |-> c.k, v |-> c.v]

\* _norm_confidence(c)
NormConfidence(c) ==
    CASE c.k \in {"fin", "nan", "pinf", "ninf", "bool"} -> NormNumber(FloatOfConf(c))
      [] c.k = "str" -> NormText(Upper(Strip(c.s)), FloatOfText(c.s))
      [] OTHER -> Fin(50)

\* a key that puts an unparseable timestamp after every real one
TsKey_Late(rec) == IF rec.timestamp.ok THEN rec.timestamp.t ELSE 1000000

\* _ts_key(rec): 0.0 when the timestamp does not parse
TsKey(rec) == IF rec.timestamp.ok THEN rec.timestamp.t ELSE 0

RECURSIVE InsertByKey(_, _)
\* rec put behind every record of the sorted list whose key is not larger
InsertByKey(sorted, rec) ==
    IF sorted = <<>> THEN <<rec>>
    ELSE LET last == sorted[Len(sorted)]
         IN  IF TsKey(last) <= TsKey(rec) THEN Append(sorted, rec)
             ELSE Append(InsertByKey(SubSeq(sorted, 1, Len(sorted) - 1), rec), last)

RECURSIVE SortAcc(_, _)
SortAcc(log, acc) ==
    IF Len(acc) >= Len(log) THEN acc
    ELSE SortAcc(log, InsertByKey(acc, log[Len(acc) + 1]))

\* sorted(decision_history, key=_ts_key): stable, ascending
SortedAll(log) == SortAcc(log, <<>>)

\* a bucket that takes the records of every symbol
Bucket_All(log, sym) == SortedAll(log)

\* the records of one symbol, in sorted order
Bucket(log, sym) == SelectSeq(SortedAll(log), LAMBDA rec : rec.symbol = sym)

\* the dict built for one record of the trimmed bucket
Cleaned(rec) ==
    [timestamp |-> rec.timestamp,
     reason |-> rec.reason,
     confidence |-> NormConfidence(rec.confidence),
     leverage |-> ToFloat(rec.leverage, Fin(0)),
     price |-> ToFloat(rec.price, Fin(0))]

\* _group_history_by_symbol(decision_history, max_per_symbol): a mapping
\* from the symbols that have a record to their cleaned windows ({} for an
\* empty or missing log)
GroupHistoryBySymbol(log, n) ==
    LET syms == IF Len(log) = 0 THEN {} ELSE {log[i].symbol : i \in 1..Len(log)} \ {""}
    IN  [sym \in syms |->
            LET trimmed == SliceLast(Bucket(log, sym), n)
            IN  [i \in 1..Len(trimmed) |-> Cleaned(trimmed[i])]]

-----------------------------------------------------------------------------
(* A decision record also carries kind: "dict", or "str" for a log entry    *)
(* that is no dict.                                                        *)
(*                                                                         *)
(* The aggregator as a state machine: a log and a window size are drawn,   *)
(* then _group_history_by_symbol runs on them.                             *)

Garbage == [ok |-> FALSE, t |-> 0]
Stamp(t) == [ok |-> TRUE, t |-> t]

\* an unparseable timestamp, one before the epoch, the epoch, one after it
Stamps == {Garbage, Stamp(-1), Stamp(0), Stamp(1)}

LogSymbols == {"BTCUSDT", "ETHUSDT", ""}

RecordStyles ==
    {[confidence |-> StrConf(HIGH), leverage |-> Fin(5), price |-> Fin(BASE)],
     [confidence |-> NumConf(150), leverage |-> NoneVal, price |-> NaN]}

\* the log whose record i has timestamp and symbol f[i] and the fields of st
MakeLog(f, st) ==
    [i \in DOMAIN f |->
        [kind |-> "dict", timestamp |-> f[i][1], symbol |-> f[i][2], reason |-> i,
         confidence |-> st.confidence, leverage |-> st.leverage, price |-> st.price]]

InitHist ==
    /\ \E len \in 0..MaxLog : \E f \in [1..len -> Stamps \X LogSymbols] :
          \E st \in RecordStyles : decision_history = MakeLog(f, st)
    /\ max_per_symbol \in 0..MaxWindow
    /\ grouped = <<>>
    /\ data = EmptyData
    /\ price_dp = 2
    /\ block = NoBlock
    /\ call = NoCall
    /\ result = NoResult
    /\ payloads = <<>>
    /\ max_history = 0
    /\ history_file = <<>>
    /\ saved = 0
    /\ exchange = NoExchange
    /\ pc = "input"

GroupHistory ==
    /\ pc = "input"
    /\ grouped' = GroupHistoryBySymbol(decision_history, max_per_symbol)
    /\ pc' = "done"
    /\ UNCHANGED <<payloads, max_history, history_file, saved, exchange, data,
                   price_dp, block, decision_history, max_per_symbol, call, result>>

NextHist == GroupHistory

SpecHist == InitHist /\ [][NextHist]_vars

Grouped == pc = "done"

\* the positions in the log of the records of sym
PositionsOf(sym) == {i \in 1..Len(decision_history) : decision_history[i].symbol = sym}

\* the window emitted for sym ([] when the mapping has no such key)
WindowOf(sym) == IF sym \in DOMAIN grouped THEN grouped[sym] ELSE <<>>

\* the log positions of the records kept in the window of sym
KeptOf(sym) == {WindowOf(sym)[j].reason : j \in 1..Len(WindowOf(sym))}

\* the instant a record is ordered by: its timestamp, the epoch when it has none
Instant(i) ==
    IF decision_history[i].timestamp.ok THEN decision_history[i].timestamp.t ELSE 0

\* record a comes before record b in stable ascending timestamp order
Before(a, b) == Instant(a) < Instant(b) \/ (Instant(a) = Instant(b) /\ a < b)

-----------------------------------------------------------------------------
(* Claims about the history window *)

\* C7: for a window size N >= 1 the list of every instrument is exactly the
\* last min(N, count) of its records in stable ascending timestamp order
\* (a record without a parseable timestamp ordered at the epoch), oldest
\* first; records without an instrument appear nowhere.
C7_TrailingWindow ==
    (Grouped /\ max_per_symbol >= 1) =>
        /\ DOMAIN grouped = {s \in LogSymbols : PositionsOf(s) # {}} \ {""}
        /\ \A sym \in LogSymbols \ {""} :
              LET out == WindowOf(sym)
              IN  /\ Len(out) = Min2(max_per_symbol, Cardinality(PositionsOf(sym)))
                  /\ \A j \in 1..Len(out) :
                        /\ out[j].reason \in PositionsOf(sym)
                        /\ out[j] = Cleaned(decision_history[out[j].reason])
                  /\ \A j \in 1..Len(out) : \A k \in 1..Len(out) :
                        j < k => Before(out[j].reason, out[k].reason)
                  /\ \A i \in PositionsOf(sym) \ KeptOf(sym) : \A j \in 1..Len(out) :
                        Before(i, out[j].reason)

\* a full window that dropped a record and whose order is not the log's order
C7_Witness ==
    /\ Grouped /\ max_per_symbol >= 1
    /\ \E sym \in DOMAIN grouped :
          /\ Cardinality(PositionsOf(sym)) > max_per_symbol
          /\ Len(grouped[sym]) >= 2
          /\ grouped[sym][1].reason > grouped[sym][2].reason

\* C8: for every window size N >= 0 the list of every instrument has at most
\* N records.
C8_WindowBounded ==
    Grouped => \A sym \in DOMAIN grouped : Len(grouped[sym]) <= max_per_symbol

\* C9: in the list of an instrument every record without a parseable
\* timestamp comes before every record with one, and the records without
\* one keep their order in the log.
C9_UnparseableFirst ==
    Grouped =>
        \A sym \in DOMAIN grouped :
            \A j \in 1..Len(grouped[sym]) : \A k \in 1..Len(grouped[sym]) :
                LET a == grouped[sym][j]
                    b == grouped[sym][k]
                IN  /\ (~a.timestamp.ok /\ b.timestamp.ok) => j < k
                    /\ (~a.timestamp.ok /\ ~b.timestamp.ok /\ j < k) => a.reason < b.reason

\* record i of the log, with a parseable timestamp, is dropped from the
\* window of sym while the window keeps a record without one
Displaced(sym, i) ==
    /\ i \in PositionsOf(sym) \ KeptOf(sym)
    /\ decision_history[i].timestamp.ok
    /\ \E j \in 1..Len(WindowOf(sym)) : ~WindowOf(sym)[j].timestamp.ok

-----------------------------------------------------------------------------
(* The payload assembler: build_multi_symbol_analysis_payload.             *)
(* all_symbols_data is a sequence of entries in the dict's iteration       *)
(* order.  A value read from a dict may also be Missing (no such key).     *)
(* A dict-typed input carries its shape in kind: "dict", "none" (None), or *)
(* "list" (a non-empty value of another type, on which .get is an          *)
(* AttributeError).                                                        *)

Missing == [k |-> "missing", v |-> 0]

\* d.get(key, default)
DictGet(v, default) == IF v.k = "missing" THEN default ELSE v

\* _get(d, key, 0.0, n) of a value held with one more decimal than n
GetRounded(v, n) == Round(DictGet(v, Fin(0)), Pow10(n + 1), n)

\* _qty_dp(symbol) when the table has no qty_dp: the fallback
QTY_DP_FALLBACK == 4

\* _round_qty(symbol, x) of a quantity held with one more decimal
RoundQty(x) ==
    IF FloatRaises(x) THEN Fin(0) ELSE PyRound(x, Pow10(QTY_DP_FALLBACK + 1), QTY_DP_FALLBACK)

\* max_per_symbol=10 of the assembler's call of the aggregator
HISTORY_WINDOW == 10

DefaultIntervals == <<"3m", "5m", "15m", "1h", "4h", "1d">>

\* symbol.replace("USDT", "") + "/USDT"
MarketLabel(symbol) ==
    CASE symbol = "BTCUSDT" -> "BTC/USDT"
      [] symbol = "ETHUSDT" -> "ETH/USDT"
      [] OTHER -> "/USDT"

\* position.get("side") or ("LONG" if _to_float(positionAmt) > 0 else "SHORT")
PositionSide(pos) ==
    IF pos.side # "" THEN pos.side
    ELSE IF ToFloat(DictGet(pos.positionAmt, NoneVal), Fin(0)).v > 0 THEN "LONG" ELSE "SHORT"

NoPosition ==
    [present |-> FALSE, side |-> "", positionAmt |-> Fin(0), entry_price |-> Fin(0),
     leverage |-> Fin(0), unrealized_pnl |-> Fin(0), pnl_percent |-> Fin(0),
     isolatedMargin |-> Fin(0)]

\* symbol_obj["position"]
PositionOut(pos, dp) ==
    IF ~pos.present THEN NoPosition
    ELSE [present |-> TRUE,
          side |-> PositionSide(pos),
          positionAmt |-> RoundQty(DictGet(pos.positionAmt, Fin(0))),
          entry_price |-> RoundPrice(DictGet(pos.entry_price, Fin(0)), 1, dp),
          leverage |-> ToFloat(DictGet(pos.leverage, NoneVal), Fin(0)),
          unrealized_pnl |-> GetRounded(pos.unrealized_pnl, 4),
          pnl_percent |-> GetRounded(pos.pnl_percent, 4),
          isolatedMargin |-> GetRounded(pos.isolatedMargin, 4)]

\* the value of market_data.get("realtime") or {}: every key missing for None
Realtime(e) ==
    IF e.market_data.kind = "dict" /\ e.market_data.realtime.kind = "dict"
    THEN e.market_data.realtime
    ELSE [kind |-> "dict", price |-> Missing, funding_rate |-> Missing,
          open_interest |-> Missing]

\* the timeframe entry multi.get(interval): absent when there is no
\* multi_timeframe mapping
TfEntry(e, interval) ==
    IF e.market_data.kind = "dict" THEN e.market_data.multi[interval]
    ELSE [kind |-> "absent", data |-> EmptyData]

RECURSIVE MarketBlocks_Reversed(_, _, _, _)
\* the blocks put in front of the list instead of appended to it
MarketBlocks_Reversed(e, dp, funding, i) ==
    IF i > Len(DefaultIntervals) THEN <<>>
    ELSE LET iv == DefaultIntervals[i]
             tf == TfEntry(e, iv)
             blk == BuildIntervalBlock(IF tf.kind = "dict" THEN tf.data ELSE EmptyData, dp)
             rest == MarketBlocks_Reversed(e, dp, funding, i + 1)
         IN  IF tf.kind = "absent" \/ ~blk.built THEN rest
             ELSE rest \o <<[time_frame |-> iv, funding |-> funding, block |-> blk]>>

\* the blocks appended to symbol_obj["market_data"], in DefaultIntervals
\* order, each with the symbol's funding copied in
RECURSIVE MarketBlocks(_, _, _, _)
MarketBlocks(e, dp, funding, i) ==
    IF i > Len(DefaultIntervals) THEN <<>>
    ELSE LET iv == DefaultIntervals[i]
             tf == TfEntry(e, iv)
             blk == BuildIntervalBlock(IF tf.kind = "dict" THEN tf.data ELSE EmptyData, dp)
             rest == MarketBlocks(e, dp, funding, i + 1)
         IN  IF tf.kind = "absent" \/ ~blk.built THEN rest
             ELSE <<[time_frame |-> iv, funding |-> funding, block |-> blk]>> \o rest

\* one element of payload["symbols"]
SymbolObj(e, dp, hist) ==
    LET rt == Realtime(e)
        funding == GetRounded(rt.funding_rate, 6)
    IN  [market |-> MarketLabel(e.symbol),
         funding |-> funding,
         open_interest |-> GetRounded(rt.open_interest, 0),
         current_price |-> RoundPrice(DictGet(rt.price, Fin(0)), 1, dp),
         position |-> PositionOut(e.position, dp),
         market_data |-> MarketBlocks(e, dp, funding, 1),
         decision_history |-> IF e.symbol \in DOMAIN hist THEN hist[e.symbol] ELSE <<>>]

\* payload["account"]: {} unless a summary is supplied
AccountOut(acct) ==
    IF ~acct.present
    THEN [present |-> FALSE, equity |-> Fin(0), available_balance |-> Fin(0),
          total_unrealized_pnl |-> Fin(0)]
    ELSE [present |-> TRUE,
          equity |-> GetRounded(acct.equity, 2),
          available_balance |-> GetRounded(acct.available_balance, 2),
          total_unrealized_pnl |-> GetRounded(acct.total_unrealized_pnl, 2)]

\* rec.get(...) in _ts_key is outside the try: a log entry that is no dict
\* raises AttributeError
HistoryRaises(log) == \E i \in 1..Len(log) : log[i].kind # "dict"

\* the places of the per-symbol loop where .get is called on a value that
\* may be None or of another type
SymbolRaises(e) ==
    \/ e.kind # "dict"
    \/ e.market_data.kind = "list"
    \/ e.market_data.kind = "dict" /\ e.market_data.realtime.kind = "list"
    \/ \E i \in 1..Len(DefaultIntervals) : TfEntry(e, DefaultIntervals[i]).kind = "list"

BuildRaises(c) ==
    \/ HistoryRaises(c.decision_history)
    \/ \E i \in 1..Len(c.symbols) : SymbolRaises(c.symbols[i])

\* a payload whose open interest is stamped with the clock reading
BuildPayload_Stamped(c, dp) ==
    IF BuildRaises(c) THEN [raised |-> TRUE, exc |-> "AttributeError"]
    ELSE LET hist == GroupHistoryBySymbol(c.decision_history, HISTORY_WINDOW)
         IN  [raised |-> FALSE, exc |-> "",
              meta |-> [now |-> c.now, exchange |-> "Binance Perp (USDT-M)"],
              account |-> AccountOut(c.account_summary),
              symbols |-> [i \in 1..Len(c.symbols) |->
                              [SymbolObj(c.symbols[i], dp, hist)
                                  EXCEPT !.open_interest = Fin(c.now)]]]

\* build_multi_symbol_analysis_payload(all_symbols_data, account_summary,
\* decision_history): the payload, or the exception that escapes
BuildPayload(c, dp) ==
    IF BuildRaises(c) THEN [raised |-> TRUE, exc |-> "AttributeError"]
    ELSE LET hist == GroupHistoryBySymbol(c.decision_history, HISTORY_WINDOW)
         IN  [raised |-> FALSE, exc |-> "",
              meta |-> [now |-> c.now, exchange |-> "Binance Perp (USDT-M)"],
              account |-> AccountOut(c.account_summary),
              symbols |-> [i \in 1..Len(c.symbols) |-> SymbolObj(c.symbols[i], dp, hist)]]

-----------------------------------------------------------------------------
(* The assembler as a state machine: the inputs of one analysis cycle are  *)
(* drawn, then build_multi_symbol_analysis_payload runs on them.           *)

\* what a numeric input can be: a finite number, nan, +inf, -inf, None, a
\* non-numeric string, or a missing key
NumKinds == {"fin", "nan", "pinf", "ninf", "none", "str", "missing"}
Num(nk, v) == IF nk = "fin" THEN Fin(v) ELSE [k |-> nk, v |-> 0]

TfAbsent == [kind |-> "absent", data |-> EmptyData]
TfNone == [kind |-> "none", data |-> EmptyData]
TfList == [kind |-> "list", data |-> EmptyData]
\* an entry that is the empty mapping {}
TfEmpty == [kind |-> "dict", data |-> EmptyData]
TfDict(frame) ==
    [kind |-> "dict",
     data |-> [empty |-> FALSE,
               indicators |-> [ema_20 |-> Fin(BASE + 17), atr_14 |-> Fin(123)],
               dataframe |-> frame]]

Intervals == {DefaultIntervals[i] : i \in 1..Len(DefaultIntervals)}

\* multi_timeframe mappings: none; one frame and an explicit None; the three
\* intervals the bot asks for, one of them failed; an entry that is a list
MultiLayouts ==
    {[iv \in Intervals |-> TfAbsent],
     [iv \in Intervals |->
        CASE iv = "1h" -> TfDict(Frame(MakeBars(9, "rising", WICK)))
          [] iv = "3m" -> TfNone
          [] iv = "4h" -> TfEmpty
          [] OTHER -> TfAbsent],
     [iv \in Intervals |->
        CASE iv = "3m" -> TfDict(Frame(MakeBars(12, "zigzag", 0)))
          [] iv = "1h" -> TfDict(Frame(MakeBars(21, "falling", WICK)))
          [] iv = "1d" -> TfDict(NoFrame)
          [] OTHER -> TfAbsent],
     [iv \in Intervals |-> IF iv = "5m" THEN TfList ELSE TfAbsent]}

PlainLayout ==
    [iv \in Intervals |->
        IF iv = "1h" THEN TfDict(Frame(MakeBars(9, "rising", WICK))) ELSE TfAbsent]

PositionIn(nk) ==
    [present |-> TRUE, side |-> "", positionAmt |-> Num(nk, -150007),
     entry_price |-> Num(nk, BASE - 3), leverage |-> Num(nk, 10),
     unrealized_pnl |-> Num(nk, 123455), pnl_percent |-> Num(nk, -98765),
     isolatedMargin |-> Num(nk, 5000015)]

\* the entry of one symbol: shape is "dict", "none" (the value is None) or
\* "no_market_data" (the dict has no market_data)
EntryIn(symbol, shape, nk, layout, withPos) ==
    [symbol |-> symbol,
     kind |-> IF shape = "none" THEN "none" ELSE "dict",
     market_data |->
        [kind |-> IF shape = "dict" THEN "dict" ELSE "none",
         realtime |-> [kind |-> "dict", price |-> Num(nk, BASE + 17),
                       funding_rate |-> Num(nk, 1234567),
                       open_interest |-> Num(nk, 123456)],
         multi |-> layout],
     position |-> IF withPos THEN PositionIn(nk) ELSE NoPosition]

AccountIn(present, nk) ==
    [present |-> present, equity |-> Num(nk, 1000555),
     available_balance |-> Num(nk, 250125), total_unrealized_pnl |-> Num(nk, -12345)]

SymbolOrders == {<<>>, <<"BTCUSDT">>, <<"BTCUSDT", "ETHUSDT">>, <<"ETHUSDT", "BTCUSDT">>}

CleanStyle == [confidence |-> StrConf(HIGH), leverage |-> Fin(5), price |-> Fin(BASE)]

\* no log; a log of both symbols; a log with an entry that is no dict
PayloadLogs ==
    {<<>>,
     MakeLog(<<<<Stamp(1), "BTCUSDT">>, <<Garbage, "ETHUSDT">>, <<Stamp(0), "BTCUSDT">>>>,
             CleanStyle),
     <<[MakeLog(<<<<Stamp(1), "BTCUSDT">>>>, CleanStyle)[1] EXCEPT !.kind = "str"]>>}

\* readings of the clock
Clock == {100, 101}

Init ==
    /\ \E order \in SymbolOrders, shape \in {"dict", "none", "no_market_data"},
          nk \in NumKinds, layout \in MultiLayouts, withPos \in BOOLEAN,
          acct \in BOOLEAN, log \in PayloadLogs, now \in Clock :
          call = [symbols |->
                     [i \in 1..Len(order) |->
                        IF i = 1 THEN EntryIn(order[i], shape, nk, layout, withPos)
                        ELSE EntryIn(order[i], "dict", "fin", PlainLayout, FALSE)],
                  account_summary |-> AccountIn(acct, nk),
                  decision_history |-> log,
                  now |-> now]
    /\ price_dp \in PriceDps
    /\ result = NoResult
    /\ data = EmptyData
    /\ block = NoBlock
    /\ decision_history = <<>>
    /\ max_per_symbol = 0
    /\ grouped = <<>>
    /\ payloads = <<>>
    /\ max_history = 0
    /\ history_file = <<>>
    /\ saved = 0
    /\ exchange = NoExchange
    /\ pc = "input"

Build ==
    /\ pc = "input"
    /\ result' = BuildPayload(call, price_dp)
    /\ pc' = "done"
    /\ UNCHANGED <<payloads, max_history, history_file, saved, exchange, data,
                   price_dp, block, decision_history, max_per_symbol, grouped, call>>

Next == Build

Spec == Init /\ [][Next]_vars

Returned == pc = "done" /\ ~result.raised

-----------------------------------------------------------------------------
(* Claims about the assembler *)

\* C1: build_multi_symbol_analysis_payload returns a payload for every
\* input; no exception reaches the caller.
C1_AlwaysPayload == pc = "done" => ~result.raised

\* the emitted field is a finite number, and 0.0 when its input is not one
NumericOut(in, out) == IsFinite(out) /\ (in.k # "fin" => out = Fin(0))

\* C2: every numeric field of the payload is finite, and is 0.0 whenever its
\* input is nan, +inf, -inf, missing or not a number.
C2_NumericFieldsTotal ==
    Returned =>
        /\ \A i \in 1..Len(result.symbols) :
              LET e == call.symbols[i]
                  o == result.symbols[i]
                  rt == Realtime(e)
              IN  /\ NumericOut(rt.funding_rate, o.funding)
                  /\ NumericOut(rt.open_interest, o.open_interest)
                  /\ NumericOut(rt.price, o.current_price)
                  /\ o.position.present =>
                        /\ NumericOut(e.position.positionAmt, o.position.positionAmt)
                        /\ NumericOut(e.position.entry_price, o.position.entry_price)
                        /\ NumericOut(e.position.leverage, o.position.leverage)
                        /\ NumericOut(e.position.unrealized_pnl, o.position.unrealized_pnl)
                        /\ NumericOut(e.position.pnl_percent, o.position.pnl_percent)
                        /\ NumericOut(e.position.isolatedMargin, o.position.isolatedMargin)
        /\ result.account.present =>
              /\ NumericOut(call.account_summary.equity, result.account.equity)
              /\ NumericOut(call.account_summary.available_balance,
                            result.account.available_balance)
              /\ NumericOut(call.account_summary.total_unrealized_pnl,
                            result.account.total_unrealized_pnl)

\* the time_frame labels of the blocks emitted for a symbol, in list order
TimeFrames(o) == [j \in 1..Len(o.market_data) |-> o.market_data[j].time_frame]

\* the source has a key for the timeframe
KeyPresent(e, iv) == TfEntry(e, iv).kind # "absent"

\* the value under the key is a non-empty mapping
EntryFilled(e, iv) == TfEntry(e, iv).kind = "dict" /\ ~TfEntry(e, iv).data.empty

\* C16 as stated: market_data holds one block for every timeframe of the
\* priority list that is a key of the source, in priority order, and none
\* for a timeframe that is no key.
C16_BlockPerKey ==
    Returned =>
        \A i \in 1..Len(result.symbols) :
            TimeFrames(result.symbols[i]) =
                SelectSeq(DefaultIntervals, LAMBDA iv : KeyPresent(call.symbols[i], iv))

\* C16 amended: market_data holds one block for every timeframe of the
\* priority list whose entry in the source is a non-empty mapping, in
\* priority order, and none for a timeframe that is no key or whose entry
\* is null or empty.
C16_BlockPerFilledKey ==
    Returned =>
        \A i \in 1..Len(result.symbols) :
            LET tfs == TimeFrames(result.symbols[i])
            IN  /\ tfs = SelectSeq(DefaultIntervals,
                                   LAMBDA iv : EntryFilled(call.symbols[i], iv))
                /\ \A j \in 1..Len(tfs) : \A k \in 1..Len(tfs) : j # k => tfs[j] # tfs[k]

\* a payload with the blocks 3m, 1h, 1d of a symbol, in that order
C16_Witness ==
    /\ Returned
    /\ \E i \in 1..Len(result.symbols) :
          TimeFrames(result.symbols[i]) = <<"3m", "1h", "1d">>

\* the positions in the input log of the records of a symbol
LogPositions(sym) ==
    {r \in 1..Len(call.decision_history) : call.decision_history[r].symbol = sym}

\* the log positions of the records in an emitted history window
WindowPositions(o) == {o.decision_history[j].reason : j \in 1..Len(o.decision_history)}

\* C19: the symbols list has one entry per input instrument, in the input's
\* order; each entry carries the records of its own instrument (the input
\* logs are shorter than the window, so all of them; none when it has no
\* record), oldest first, and no position when no snapshot was supplied.
C19_OneEntryPerInstrument ==
    Returned =>
        /\ Len(result.symbols) = Len(call.symbols)
        /\ \A i \in 1..Len(result.symbols) :
              LET e == call.symbols[i]
                  o == result.symbols[i]
              IN  /\ o.market = MarketLabel(e.symbol)
                  /\ WindowPositions(o) = LogPositions(e.symbol)
                  /\ Len(o.decision_history) = Cardinality(LogPositions(e.symbol))
                  /\ \A j \in 1..Len(o.decision_history) :
                        \A k \in 1..Len(o.decision_history) :
                            j < k => TsKey(call.decision_history[o.decision_history[j].reason])
                                     <= TsKey(call.decision_history[o.decision_history[k].reason])
                  /\ ~e.position.present => ~o.position.present

\* ETH then BTC in the input; ETH's entry carries its one record, BTC's its
\* two records and no position
C19_Witness ==
    /\ Returned
    /\ Len(result.symbols) = 2
    /\ result.symbols[1].market = "ETH/USDT"
    /\ Len(result.symbols[1].decision_history) = 1
    /\ result.symbols[2].market = "BTC/USDT"
    /\ Len(result.symbols[2].decision_history) = 2
    /\ ~result.symbols[2].position.present

-----------------------------------------------------------------------------
(* Consecutive analysis cycles on the same inputs: the assembler runs       *)
(* MaxCycles times on one input document and one precision table, reading  *)
(* the clock (datetime.now()) anew in each run.                            *)

\* the cycles run on one input document
MaxCycles == 2

InitCycles ==
    /\ \E order \in SymbolOrders, shape \in {"dict", "none", "no_market_data"},
          nk \in {"fin", "nan", "missing"}, layout \in MultiLayouts, log \in PayloadLogs :
          call = [symbols |->
                     [i \in 1..Len(order) |->
                        IF i = 1 THEN EntryIn(order[i], shape, nk, layout, TRUE)
                        ELSE EntryIn(order[i], "dict", "fin", PlainLayout, FALSE)],
                  account_summary |-> AccountIn(TRUE, nk),
                  decision_history |-> log,
                  now |-> 0]
    /\ price_dp \in PriceDps
    /\ result = NoResult
    /\ payloads = <<>>
    /\ max_history = 0
    /\ history_file = <<>>
    /\ saved = 0
    /\ exchange = NoExchange
    /\ data = EmptyData
    /\ block = NoBlock
    /\ decision_history = <<>>
    /\ max_per_symbol = 0
    /\ grouped = <<>>
    /\ pc = "input"

\* one run of build_multi_symbol_analysis_payload at clock reading t
Cycle ==
    /\ pc = "input"
    /\ \E t \in Clock : result' = BuildPayload([call EXCEPT !.now = t], price_dp)
    /\ payloads' = Append(payloads, result')
    /\ pc' = IF Len(payloads') >= MaxCycles THEN "done" ELSE "input"
    /\ UNCHANGED <<max_history, history_file, saved, exchange, data, price_dp, block,
                   decision_history, max_per_symbol, grouped, call>>

NextCycles == Cycle

SpecCycles == InitCycles /\ [][NextCycles]_vars

\* two outcomes agree in everything but meta.now
SameButNow(p, q) ==
    IF p.raised \/ q.raised THEN p = q
    ELSE [p EXCEPT !.meta.now = 0] = [q EXCEPT !.meta.now = 0]

-----------------------------------------------------------------------------
(* _norm_confidence as a state machine: a confidence value of a decision    *)
(* record is drawn, then _norm_confidence runs on it.                       *)

\* numeric confidences from -ConfSpan/100 to 1 + ConfSpan/100
ConfSpan == 60

ConfTexts ==
    {HIGH, MEDIUM, LOW,
     <<" ", "h", "i", "g", "h", " ">>, <<"M", "e", "d", "i", "u", "m">>, <<"l", "o", "w">>,
     <<"H", "I", "G", "H", "E", "R">>, <<"g", "a", "r", "b", "a", "g", "e">>, <<>>,
     <<"0", ".", "7", "3">>, <<" ", "0", ".", "7", "3", " ">>, <<"1", ".", "5">>,
     <<"1">>, <<"0">>, <<"-", "0", ".", "5">>, <<"1", "e", "-", "1">>, <<"7", "E", "1">>,
     <<"n", "a", "n">>, <<"i", "n", "f">>, <<"0", ".", "7", ".", "3">>, <<"5", "e">>}

ConfInputs ==
    {NumConf(v) : v \in (0 - ConfSpan)..(CONF_SCALE + ConfSpan)}
    \cup {SpecialConf(kd) : kd \in {"nan", "pinf", "ninf"}}
    \cup {BoolConf(b) : b \in BOOLEAN}
    \cup {StrConf(t) : t \in ConfTexts}
    \cup {NoneConf, ListConf}

InitConf ==
    /\ call \in {[fn |-> "_norm_confidence", arg |-> c] : c \in ConfInputs}
    /\ result = NoResult
    /\ price_dp = 2
    /\ data = EmptyData
    /\ block = NoBlock
    /\ decision_history = <<>>
    /\ max_per_symbol = 0
    /\ grouped = <<>>
    /\ payloads = <<>>
    /\ max_history = 0
    /\ history_file = <<>>
    /\ saved = 0
    /\ exchange = NoExchange
    /\ pc = "input"

NormConf ==
    /\ pc = "input"
    /\ result' = [raised |-> FALSE, exc |-> "", value |-> NormConfidence(call.arg)]
    /\ pc' = "done"
    /\ UNCHANGED <<payloads, max_history, history_file, saved, exchange, data,
                   price_dp, block, decision_history, max_per_symbol, grouped, call>>

NextConf == NormConf

SpecConf == InitConf /\ [][NextConf]_vars

\* the input is an int or a float (a bool is an int) with a value in [0, 1]
NumberInUnit(c) ==
    \/ c.k = "fin" /\ 0 <= c.v /\ c.v <= CONF_SCALE
    \/ c.k = "bool"

\* the value of a numeric input in units of 1/CONF_SCALE
NumberValue(c) == IF c.k = "bool" THEN c.v * CONF_SCALE ELSE c.v

\* the value the label written by a text stands for, 0 when it is no label
LabelValue(t) ==
    CASE t = HIGH -> 80
      [] t = MEDIUM -> 60
      [] t = LOW -> 40
      [] OTHER -> 0

\* C11 as stated: the result is in [0,1]; the labels HIGH/MEDIUM/LOW give
\* 0.8/0.6/0.4; a number already in [0,1] comes back unchanged; every other
\* input (a number out of range, any other string, null, any other type)
\* gives 0.5.
C11_ElseHalf ==
    pc = "done" =>
        LET c == call.arg
            out == result.value
        IN  /\ IsFinite(out) /\ 0 <= out.v /\ out.v <= CONF_SCALE
            /\ (c.k = "str" /\ LabelValue(c.s) # 0) => out.v = LabelValue(c.s)
            /\ NumberInUnit(c) => out.v = NumberValue(c)
            /\ (~NumberInUnit(c) /\ ~(c.k = "str" /\ LabelValue(c.s) # 0)) => out.v = 50

\* C11 amended: the result is in [0,1]; a string that is HIGH/MEDIUM/LOW once
\* trimmed and upper-cased gives 0.8/0.6/0.4; a number in [0,1], or a string
\* that is no label and reads as a number in [0,1], gives that number;
\* every other input gives 0.5.
C11_Normalized ==
    pc = "done" =>
        LET c == call.arg
            out == result.value
            label == IF c.k = "str" THEN LabelValue(Upper(Strip(c.s))) ELSE 0
            read == IF c.k = "str" THEN FloatOfText(c.s) ELSE NaN
            numeric == c.k = "str" /\ label = 0 /\ InUnit(read)
        IN  /\ IsFinite(out) /\ 0 <= out.v /\ out.v <= CONF_SCALE
            /\ label # 0 => out.v = label
            /\ NumberInUnit(c) => out.v = NumberValue(c)
            /\ numeric => out = read
            /\ (label = 0 /\ ~NumberInUnit(c) /\ ~numeric) => out.v = 50

\* a number out of range was normalised to 0.5
C11_Witness ==
    /\ pc = "done"
    /\ call.arg.k = "fin" /\ call.arg.v > CONF_SCALE
    /\ result.value = Fin(50)

-----------------------------------------------------------------------------
(* The precision resolver: _decimals_from_step and _build_precision_map.    *)
(* A step value is None, a str (s is the text), an int, a bool, a float     *)
(* (finite: the digits coef and exponent exp of its shortest repr, the      *)
(* value being coef * 10^exp; or nan, +inf, -inf), or a list.               *)

DigitChars == <<"0", "1", "2", "3", "4", "5", "6", "7", "8", "9">>

RECURSIVE StrOfNat(_)
\* str(n) of an int n >= 0
StrOfNat(n) ==
    IF n < 10 THEN <<DigitChars[n + 1]>>
    ELSE Append(StrOfNat(n \div 10), DigitChars[(n % 10) + 1])

Zeros(n) == [i \in 1..n |-> "0"]

\* the exponent field of scientific notation: a sign and two digits or more
ExponentText(e10) ==
    <<"e", IF e10 < 0 THEN "-" ELSE "+">>
    \o (IF Abs(e10) < 10 THEN <<"0">> ELSE <<>>) \o StrOfNat(Abs(e10))

\* the digits of a float laid out around the decimal point decpt
FloatBody(digits, exp, decpt) ==
    IF digits = <<"0">> THEN <<"0", ".", "0">>
    ELSE IF -4 < decpt /\ decpt <= 16
    THEN (IF exp >= 0 THEN digits \o Zeros(exp) \o <<".", "0">>
          ELSE IF decpt <= 0 THEN <<"0", ".">> \o Zeros(0 - decpt) \o digits
          ELSE SubSeq(digits, 1, decpt) \o <<".">> \o SubSeq(digits, decpt + 1, Len(digits)))
    ELSE <<digits[1]>>
         \o (IF Len(digits) > 1 THEN <<".">> \o SubSeq(digits, 2, Len(digits)) ELSE <<>>)
         \o ExponentText(decpt - 1)

FloatDigits(neg, digits, exp) ==
    (IF neg THEN <<"-">> ELSE <<>>) \o FloatBody(digits, exp, Len(digits) + exp)

\* str(x) of a finite float: fixed notation while the decimal point falls
\* within -4 < decpt <= 16, scientific notation with a two-digit exponent
\* otherwise; an integral value is written with a trailing ".0"
StrOfFloat(f) == FloatDigits(f.neg, StrOfNat(f.coef), f.exp)

NoneStep == [k |-> "none"]
TextStep(t) == [k |-> "str", s |-> t]
IntStep(n) == [k |-> "int", neg |-> n < 0, coef |-> Abs(n)]
BoolStep(b) == [k |-> "bool", b |-> b]
FloatStep(neg, coef, exp) == [k |-> "float", neg |-> neg, coef |-> coef, exp |-> exp]
SpecialStep(kind) == [k |-> kind]
ListStep == [k |-> "list"]

\* str(step)
StrOfStep(step) ==
    CASE step.k = "str" -> step.s
      [] step.k = "int" -> (IF step.neg THEN <<"-">> ELSE <<>>) \o StrOfNat(step.coef)
      [] step.k = "bool" -> IF step.b THEN <<"T", "r", "u", "e">>
                            ELSE <<"F", "a", "l", "s", "e">>
      [] step.k = "float" -> StrOfFloat(step)
      [] step.k = "nan" -> <<"n", "a", "n">>
      [] step.k = "pinf" -> <<"i", "n", "f">>
      [] step.k = "ninf" -> <<"-", "i", "n", "f">>
      [] OTHER -> <<"[", "]">>

\* the clamp of the decimal-place count
DP_MAX == 18

\* the count without its lower clamp max(0, .)
DecimalsOf_NoFloor(d, default_dp) ==
    CASE d.k \in {"bad", "nan"} -> [exc |-> "InvalidOperation", value |-> 0]
      [] d.k = "inf" -> IF d.neg THEN [exc |-> "", value |-> default_dp]
                        ELSE [exc |-> "TypeError", value |-> 0]
      [] OTHER ->
            IF d.neg \/ d.coef = 0 THEN [exc |-> "", value |-> default_dp]
            ELSE [exc |-> "", value |-> Min2(0 - d.exp, DP_MAX)]

\* what the body of the try block does with d = Decimal(str(step)): the
\* exception it raises ("" for none) and the value it returns
\*   Decimal(text) raises InvalidOperation for a text that is no number;
\*   d <= 0 raises InvalidOperation for NaN;
\*   the exponent of an infinity is 'F' and -'F' is a TypeError
DecimalsOf(d, default_dp) ==
    CASE d.k = "bad" -> [exc |-> "InvalidOperation", value |-> 0]
      [] d.k = "nan" -> [exc |-> "InvalidOperation", value |-> 0]
      [] d.k = "inf" -> IF d.neg THEN [exc |-> "", value |-> default_dp]
                        ELSE [exc |-> "TypeError", value |-> 0]
      [] OTHER ->
            IF d.neg \/ d.coef = 0 THEN [exc |-> "", value |-> default_dp]
            ELSE [exc |-> "", value |-> Min2(Max2(0, 0 - d.exp), DP_MAX)]

\* the try block of _decimals_from_step
TryDecimals(step, default_dp) == DecimalsOf(ParseNumber(StrOfStep(step)), default_dp)

\* an except clause for the parse error alone
Caught_ParseOnly == {"InvalidOperation"}

\* the exceptions of the except clause
Caught == {"InvalidOperation", "ValueError", "TypeError"}

\* the outcome t of the try block behind the except clause
Handled(t, default_dp) ==
    IF t.exc = "" THEN [raised |-> FALSE, exc |-> "", value |-> t.value]
    ELSE IF t.exc \in Caught THEN [raised |-> FALSE, exc |-> "", value |-> default_dp]
    ELSE [raised |-> TRUE, exc |-> t.exc, value |-> 0]

\* _decimals_from_step(step, default_dp): the count, or the exception that
\* escapes
DecimalsFromStep(step, default_dp) ==
    IF step.k = "none" THEN [raised |-> FALSE, exc |-> "", value |-> default_dp]
    ELSE Handled(TryDecimals(step, default_dp), default_dp)

\* default_dp=2 of the tick size, default_dp=4 of the step size
PRICE_DP_DEFAULT == 2
QTY_DP_DEFAULT == 4

\* pm[sym] from the two resolved counts p and q
PrecisionEntry(p, q) ==
    IF p.raised THEN [raised |-> TRUE, exc |-> p.exc, price_dp |-> 0, qty_dp |-> 0]
    ELSE IF q.raised THEN [raised |-> TRUE, exc |-> q.exc, price_dp |-> 0, qty_dp |-> 0]
    ELSE [raised |-> FALSE, exc |-> "", price_dp |-> p.value, qty_dp |-> q.value]

\* the entry _build_precision_map stores for one symbol
BuildPrecisionEntry(tickSize, stepSize) ==
    PrecisionEntry(DecimalsFromStep(tickSize, PRICE_DP_DEFAULT),
                   DecimalsFromStep(stepSize, QTY_DP_DEFAULT))

-----------------------------------------------------------------------------
(* The resolver as a state machine: the tickSize and stepSize of a symbol's *)
(* filters are drawn, then _build_precision_map resolves both.              *)

\* texts 1e-0 .. 1e-MaxExp and 0.1 .. 0.0...01 with MaxExp zeros
MaxExp == 20

StepTexts ==
    {<<"0", ".", "0", "1">>, <<"0", ".", "0", "1", "0", "0", "0", "0", "0", "0">>,
     <<"1", "e", "-", "6">>, <<"1", "E", "+", "2">>, <<"5">>, <<"0">>,
     <<"0", ".", "0", "0">>, <<"-", "0", ".", "0", "1">>, <<"a", "b", "c">>, <<>>,
     <<"n", "a", "n">>, <<"i", "n", "f">>, <<"-", "i", "n", "f">>,
     <<"I", "n", "f", "i", "n", "i", "t", "y">>, <<" ", "0", ".", "0", "1", " ">>,
     <<"1", ".", "5", "e", "-", "3">>, <<"0", ".", "0", "1", "x">>}
    \cup {<<"1", "e", "-">> \o StrOfNat(n) : n \in 0..MaxExp}
    \cup {<<"0", ".">> \o Zeros(n) \o <<"1">> : n \in 0..MaxExp}

\* 0.1, 0.5, 0.25, 0.001, 0.00001, 1e-07, 1.5e-07, 5.0, 100.0, 1e+22, 0.0, -0.1
StepFloats ==
    {FloatStep(FALSE, 1, -1), FloatStep(FALSE, 5, -1), FloatStep(FALSE, 25, -2),
     FloatStep(FALSE, 1, -3), FloatStep(FALSE, 1, -5), FloatStep(FALSE, 1, -7),
     FloatStep(FALSE, 15, -8), FloatStep(FALSE, 5, 0), FloatStep(FALSE, 1, 2),
     FloatStep(FALSE, 1, 22), FloatStep(FALSE, 0, 0), FloatStep(TRUE, 1, -1)}

StepInputs ==
    {NoneStep, ListStep}
    \cup {BoolStep(b) : b \in BOOLEAN}
    \cup {SpecialStep(kd) : kd \in {"nan", "pinf", "ninf"}}
    \cup {IntStep(n) : n \in {-1, 0, 1, 5, 100}}
    \cup StepFloats
    \cup {TextStep(t) : t \in StepTexts}

InitStep ==
    /\ call \in {[fn |-> "_build_precision_map", tickSize |-> t, stepSize |-> q] :
                    t \in StepInputs, q \in StepInputs}
    /\ result = NoResult
    /\ price_dp = 2
    /\ data = EmptyData
    /\ block = NoBlock
    /\ decision_history = <<>>
    /\ max_per_symbol = 0
    /\ grouped = <<>>
    /\ payloads = <<>>
    /\ max_history = 0
    /\ history_file = <<>>
    /\ saved = 0
    /\ exchange = NoExchange
    /\ pc = "input"

BuildPrecisionMap ==
    /\ pc = "input"
    /\ result' = BuildPrecisionEntry(call.tickSize, call.stepSize)
    /\ pc' = "done"
    /\ UNCHANGED <<payloads, max_history, history_file, saved, exchange, data,
                   price_dp, block, decision_history, max_per_symbol, grouped, call>>

NextStep == BuildPrecisionMap

SpecStep == InitStep /\ [][NextStep]_vars

\* the exact decimal a step value is read as
Read(x) == ParseNumber(StrOfStep(x))

\* x, read as the literal d, is an exact decimal greater than 0
IsPositive(x, d) == x.k # "none" /\ d.k = "dec" /\ ~d.neg /\ d.coef > 0

\* the step value reads as an exact decimal greater than 0
PositiveDecimal(x) == IsPositive(x, Read(x))

\* the magnitude of the negative exponent of d, clamped to [0,18]
Magnitude(d) == IF d.exp >= 0 THEN 0 ELSE IF 0 - d.exp > 18 THEN 18 ELSE 0 - d.exp

\* the count out is the clamped exponent magnitude of x read as d
MagnitudeRule(x, d, out) == IsPositive(x, d) => out = Magnitude(d)

\* the rule of C12 for one step value and the count resolved for it
ExponentRule(x, out) ==
    /\ MagnitudeRule(x, Read(x), out)
    /\ x = TextStep(<<"0", ".", "0", "1">>) => out = 2
    /\ x = TextStep(<<"1", "e", "-", "6">>) => out = 6
    /\ x = FloatStep(FALSE, 1, -1) => out = 1
    /\ x = IntStep(5) => out = 0
    /\ x = TextStep(<<"1", "E", "+", "2">>) => out = 0

\* C12: a step value that reads as an exact decimal greater than 0 resolves
\* to the magnitude of its negative exponent clamped to [0,18]: "0.01" gives
\* 2, "1e-6" gives 6, the float 0.1 gives 1, and a value with a non-negative
\* exponent (5, "1E+2") gives 0.
C12_ExponentMagnitude ==
    pc = "done" =>
        /\ ~result.raised
        /\ ExponentRule(call.tickSize, result.price_dp)
        /\ ExponentRule(call.stepSize, result.qty_dp)

\* a tick size below 1e-18 was clamped and a step size with a positive
\* exponent resolved to 0
C12_Witness ==
    /\ pc = "done" /\ ~result.raised
    /\ call.tickSize = TextStep(<<"1", "e", "-", "2", "0">>) /\ result.price_dp = 18
    /\ call.stepSize = TextStep(<<"1", "E", "+", "2">>) /\ result.qty_dp = 0

\* C13: the resolver never raises; a step that is missing, unparseable (NaN
\* and the infinities included), zero or negative resolves to the default
\* (2 for the price, 4 for the quantity), and both resolved counts are
\* integers in [0,18].
C13_DefaultNeverRaises ==
    pc = "done" =>
        /\ ~result.raised
        /\ result.price_dp \in 0..18
        /\ result.qty_dp \in 0..18
        /\ ~PositiveDecimal(call.tickSize) => result.price_dp = 2
        /\ ~PositiveDecimal(call.stepSize) => result.qty_dp = 4

\* an infinite tick size and a missing step size resolved to the defaults
C13_Witness ==
    /\ pc = "done" /\ ~result.raised
    /\ call.tickSize = SpecialStep("pinf") /\ result.price_dp = 2
    /\ call.stepSize = NoneStep /\ result.qty_dp = 4

-----------------------------------------------------------------------------
(* The pattern detector as a state machine: the tail of an ohlc list is     *)
(* drawn, then _detect_candlestick_patterns runs on it.  Prices are in      *)
(* ticks.                                                                  *)

\* the prices of the last bar range over 0..PatternSpan ticks
PatternSpan == 10

Bar(o, h, l, c) == [O |-> o, H |-> h, L |-> l, C |-> c]

\* bars as an exchange reports them: low <= open, close <= high
GridBars ==
    {Bar(o, h, l, c) : o \in 0..PatternSpan, h \in 0..PatternSpan,
                       l \in 0..PatternSpan, c \in 0..PatternSpan}

LastBars ==
    {b \in GridBars : b.L <= Min2(b.O, b.C) /\ Max2(b.O, b.C) <= b.H}

PrevBars ==
    {Bar(o, Max2(o, c) + 1, Min2(o, c) - 1, c) : o \in {2, 5, 6, 8}, c \in {2, 5, 6, 8}}

\* open=100, high=100.2, low=90, close=100
HammerExample == Bar(100 * PRICE_SCALE, 1002000, 90 * PRICE_SCALE, 100 * PRICE_SCALE)
\* the same bar closing at 100.1
HammerUpExample == Bar(100 * PRICE_SCALE, 1002000, 90 * PRICE_SCALE, 1001000)
\* open=100, high=101, low=99, close=100.05
DojiExample == Bar(100 * PRICE_SCALE, 101 * PRICE_SCALE, 99 * PRICE_SCALE, 1000500)

ExampleBars == {HammerExample, HammerUpExample, DojiExample}

\* tails of no bar, one bar, two bars, and three bars
OhlcTails ==
    {<<>>}
    \cup {<<b>> : b \in LastBars \cup ExampleBars}
    \cup {<<p, b>> : p \in PrevBars, b \in LastBars}
    \cup {<<Bar(1000500, 1002000, 999000, 1000200), b>> : b \in ExampleBars}
    \cup {<<Bar(5, 9, 1, 5), p, Bar(3, 8, 2, 7)>> : p \in PrevBars}

InitPattern ==
    /\ call \in {[fn |-> "_detect_candlestick_patterns", ohlc_tail |-> t] : t \in OhlcTails}
    /\ result = NoResult
    /\ price_dp = 2
    /\ data = EmptyData
    /\ block = NoBlock
    /\ decision_history = <<>>
    /\ max_per_symbol = 0
    /\ grouped = <<>>
    /\ payloads = <<>>
    /\ max_history = 0
    /\ history_file = <<>>
    /\ saved = 0
    /\ exchange = NoExchange
    /\ pc = "input"

DetectPatterns ==
    /\ pc = "input"
    /\ result' = [raised |-> FALSE, exc |-> "",
                  value |-> DetectCandlestickPatterns(call.ohlc_tail)]
    /\ pc' = "done"
    /\ UNCHANGED <<payloads, max_history, history_file, saved, exchange, data,
                   price_dp, block, decision_history, max_per_symbol, grouped, call>>

NextPattern == DetectPatterns

SpecPattern == InitPattern /\ [][NextPattern]_vars

\* the fixed evaluation order
PatternOrder == <<"Doji", "Hammer", "ShootingStar", "BullishEngulfing", "BearishEngulfing">>

RankOf(name) == CHOOSE i \in 1..Len(PatternOrder) : PatternOrder[i] = name

\* the last bar of the tail and the bar before it
LastBar == call.ohlc_tail[Len(call.ohlc_tail)]
PrevBar == call.ohlc_tail[Len(call.ohlc_tail) - 1]

BodyOf(b) == Abs(b.C - b.O)
UpperShadow(b) == b.H - Max2(b.O, b.C)
LowerShadow(b) == Min2(b.O, b.C) - b.L

\* num * x <= den * range and num * x >= den * range with
\* range = max(high - low, epsilon), epsilon below every tick
AtMost(x, num, den, b) == IF b.H - b.L > 0 THEN den * x <= num * (b.H - b.L) ELSE x <= 0
AtLeast(x, num, den, b) == IF b.H - b.L > 0 THEN den * x >= num * (b.H - b.L) ELSE x > 0

\* the condition C14 states for a pattern
Holds(name) ==
    LET b == LastBar
        two == Len(call.ohlc_tail) >= 2
    IN  CASE name = "Doji" -> AtMost(BodyOf(b), 1, 10, b)
          [] name = "Hammer" ->
                AtLeast(LowerShadow(b), 1, 2, b) /\ AtMost(UpperShadow(b), 1, 5, b) /\ b.C > b.O
          [] name = "ShootingStar" ->
                AtLeast(UpperShadow(b), 1, 2, b) /\ AtMost(LowerShadow(b), 1, 5, b) /\ b.C < b.O
          [] name = "BullishEngulfing" ->
                two /\ PrevBar.C < PrevBar.O /\ b.C > b.O
                    /\ b.O <= PrevBar.C /\ PrevBar.O <= b.C
          [] OTHER ->
                two /\ PrevBar.C > PrevBar.O /\ b.C < b.O
                    /\ b.C <= PrevBar.O /\ PrevBar.C <= b.O

Found == {result.value[i] : i \in 1..Len(result.value)}

C15_HammerExample ==
    (pc = "done" /\ call.ohlc_tail # <<>>) =>
        /\ LastBar = HammerExample => "Hammer" \in Found
        /\ LastBar = DojiExample => "Doji" \in Found

\* C15 amended: the bar 100 / 100.2 / 90 / 100 yields Doji and no Hammer
\* (its close is not above its open), the same bar closing at 100.1 yields
\* Doji and Hammer, and the bar 100 / 101 / 99 / 100.05 yields Doji.
C15_Examples ==
    (pc = "done" /\ call.ohlc_tail # <<>>) =>
        /\ LastBar = HammerExample => result.value = <<"Doji">>
        /\ LastBar = HammerUpExample =>
              /\ "Doji" \in Found /\ "Hammer" \in Found
              /\ Len(call.ohlc_tail) = 1 => result.value = <<"Doji", "Hammer">>
        /\ LastBar = DojiExample => "Doji" \in Found /\ "Hammer" \notin Found

\* the detector ran on the bar 100 / 100.2 / 90 / 100 and found a Doji only
C15_Witness ==
    /\ pc = "done"
    /\ call.ohlc_tail = <<HammerExample>>
    /\ result.value = <<"Doji">>

-----------------------------------------------------------------------------
(* The bot's decision history: _load_decision_history at construction and   *)
(* save_decision afterwards (src/src/main.py).  A line of the history file  *)
(* is [kind, id]: kind "dict" for a JSON object, "junk" for a line that      *)
(* does not decode or decodes to something else, "array" for a legacy JSON  *)
(* array (its first character is "[") with the elements items; id tells    *)
(* the records apart, in the order they were written.  pc is "loaded"       *)
(* until a write to the file fails and "io_failed" from then on.            *)

\* max_history ranges over 0..MaxHistory
MaxHistory == 3
\* history files of 0..MaxFile lines
MaxFile == 3
\* save_decision calls per run
MaxSaves == 4

DictLine(id) == [kind |-> "dict", id |-> id]
JunkLine(id) == [kind |-> "junk", id |-> id]
ArrayLine(items) == [kind |-> "array", id |-> 0, items |-> items]

\* the dict elements of a sequence of decoded values
DictsOf(values) == SelectSeq(values, LAMBDA ln : ln.kind = "dict")

\* the records read from a file whose first character is "[": json.load
\* decodes the array when nothing follows it and raises JSONDecodeError
\* (extra data) otherwise, which the outer except turns into []
LoadLegacy(file, limit) ==
    IF Len(file) = 1 THEN SliceLast(DictsOf(file[1].items), limit) ELSE <<>>

\* _load_decision_history(path, limit): a legacy array, or else the dict
\* records of the lines, then records[-limit:] (no file: no line)
LoadDecisionHistory(file, limit) ==
    IF file # <<>> /\ file[1].kind = "array" THEN LoadLegacy(file, limit)
    ELSE SliceLast(DictsOf(file), limit)

\* _append_history_jsonl: one more line, unless the write fails
AppendHistoryJsonl(file, record, io_ok) ==
    IF io_ok THEN Append(file, record) ELSE file

\* _compact_history_file: the file rewritten from the records, unless the
\* write fails
CompactHistoryFile(file, records, io_ok) ==
    IF io_ok THEN records ELSE file

\* self.decision_history after the append and the trim of save_decision
Remembered(history, record, limit) ==
    LET appended == Append(history, record)
    IN  IF Len(appended) > limit THEN SliceLast(appended, limit) ELSE appended

\* a file of len values of the given kinds, numbered in order
FileLines(len, kinds) == [i \in 1..len |-> [kind |-> kinds[i], id |-> i]]

\* what save_decision stores from line 519 on: the list in memory and the
\* file, compacted when the list holds exactly max_history records
Stored(history, file, limit, record, io_ok) ==
    [history |-> Remembered(history, record, limit),
     file |-> IF Len(Remembered(history, record, limit)) = limit
              THEN CompactHistoryFile(AppendHistoryJsonl(file, record, io_ok),
                                      Remembered(history, record, limit), io_ok)
              ELSE AppendHistoryJsonl(file, record, io_ok)]

InitSave ==
    /\ max_history \in 0..MaxHistory
    /\ \E len \in 0..MaxFile : \E kinds \in [1..len -> {"dict", "junk"}] :
       \E legacy \in BOOLEAN :
          history_file = IF legacy THEN <<ArrayLine(FileLines(len, kinds))>>
                         ELSE FileLines(len, kinds)
    /\ decision_history = LoadDecisionHistory(history_file, max_history)
    /\ saved = 0
    /\ exchange = NoExchange
    /\ payloads = <<>>
    /\ data = EmptyData
    /\ price_dp = 2
    /\ block = NoBlock
    /\ max_per_symbol = 0
    /\ grouped = <<>>
    /\ call = NoCall
    /\ result = NoResult
    /\ pc = "loaded"

\* save_decision(symbol, decision, market_data, position): a decision
\* without one of the keys read with [] raises KeyError before anything is
\* stored
SaveDecision ==
    /\ saved < MaxSaves
    /\ saved' = saved + 1
    /\ \E well_formed \in BOOLEAN, io_ok \in BOOLEAN :
          IF ~well_formed
          THEN /\ result' = [raised |-> TRUE, exc |-> "KeyError"]
               /\ UNCHANGED <<decision_history, history_file, pc>>
          ELSE LET stored == Stored(decision_history, history_file, max_history,
                                    DictLine(MaxFile + saved + 1), io_ok)
               IN  /\ decision_history' = stored.history
                   /\ history_file' = stored.file
                   /\ result' = NoResult
                   /\ pc' = IF io_ok THEN pc ELSE "io_failed"
    /\ UNCHANGED <<payloads, max_history, exchange, data, price_dp, block,
                   max_per_symbol, grouped, call>>

NextSave == SaveDecision

SpecSave == InitSave /\ [][NextSave]_vars

\* C20: after any save_decision calls the in-memory decision_history holds
\* no more than max_history records, and its records are in the order they
\* were saved.
C20_HistoryBounded ==
    saved >= 1 =>
    /\ Len(decision_history) <= max_history
    /\ \A i \in 1..Len(decision_history) : \A j \in 1..Len(decision_history) :
          i < j => decision_history[i].id < decision_history[j].id

\* C21: after save_decision calls without I/O failure, on a history file
\* that was absent, JSONL or a legacy JSON array, reloading the file with
\* _load_decision_history(path, max_history) returns exactly the in-memory
\* decision_history.
C21_RestartConsistent ==
    (saved >= 1 /\ pc = "loaded") =>
        LoadDecisionHistory(history_file, max_history) = decision_history

-----------------------------------------------------------------------------
(* Order execution: TradeExecutor and Hedger (src/src/trading) with the     *)
(* symbol filters (src/src/utils/symbol_filters.py).  Quantities are whole  *)
(* numbers of a quantity unit, prices of a price unit, notionals of their   *)
(* product; a quantity that is no whole number of units is the fraction     *)
(* [num, den].  The filters are [stepSize, minQty, maxQty, minNotional].    *)
(* The exchange is [positionAmt, open_orders, requests]: the signed         *)
(* position, the number of resting orders and the requests received.  The   *)
(* client behind get_ticker, create_market_order and cancel_all_orders is   *)
(* the environment: each request succeeds or raises, as the call says.      *)
(* The bodies are modelled for one attempt of the retry decorator.          *)

\* quantities and positions of 0..MaxQty units
MaxQty == 4
\* minNotional is 0 (none) or MaxNotional
MaxNotional == 5
\* percentages are PctSteps-ths
PctSteps == 4

Whole(n) == [num |-> n, den |-> 1]
Frac(n, d) == [num |-> n, den |-> d]

\* min and max of two fractions of positive denominators
RatMin(a, b) == IF a.num * b.den <= b.num * a.den THEN a ELSE b
RatMax(a, b) == IF a.num * b.den >= b.num * a.den THEN a ELSE b

\* SymbolFilters._floor_to_step(value, step): (value // step) * step
FloorToStep(value, step) == (value.num \div (value.den * step)) * step

\* the floor of quantize_qty raised back to minQty
AtLeastMinQty(q, filters) == IF q < filters.minQty THEN filters.minQty ELSE q

\* SymbolFilters.quantize_qty(qty): the clamp to [minQty, maxQty], the
\* floor to stepSize, minQty when the floor fell below it
QuantizeQty(qty, filters) ==
    AtLeastMinQty(
        FloorToStep(RatMax(Whole(filters.minQty), RatMin(qty, Whole(filters.maxQty))),
                    filters.stepSize),
        filters)

\* the text quantize_qty returns, and what float(text) reads from it
QtyText(n) == [type |-> "str", digits |-> StrOfNat(n)]
FloatOfQty(text) == DigitsValue(text.digits)

\* the second half of _ensure_qty_price: when minNotional > 0 and
\* adj_qty * used_price falls short of it, min_notional / used_price is
\* quantized in place of the quantity
BumpedQty(adj_qty, price, filters) ==
    IF filters.minNotional > 0 /\ adj_qty * price < filters.minNotional
    THEN QuantizeQty(Frac(filters.minNotional, price), filters)
    ELSE adj_qty

\* _ensure_qty_price(symbol, quantity) with price None: the quantity text
\* and the ticker price used
EnsureQtyPrice(quantity, price, filters) ==
    [adj_qty |-> QtyText(BumpedQty(FloatOfQty(QtyText(QuantizeQty(quantity, filters))),
                                   price, filters)),
     used_price |-> price]

\* a request the exchange accepted
Request(op, side, quantity, reduceOnly) ==
    [op |-> op, side |-> side, quantity |-> quantity, reduceOnly |-> reduceOnly]

NoOrder == Request("", "", 0, FALSE)

\* the exchange after it accepted a request
Requested(ex, req) == [ex EXCEPT !.requests = Append(@, req)]

\* the exchange after a market order was accepted and filled
Filled(ex, order) ==
    [Requested(ex, order) EXCEPT
        !.positionAmt = IF order.side = "BUY" THEN @ + order.quantity
                        ELSE @ - order.quantity]

\* the exchange after cancel_all_orders was accepted
Cancelled(ex) ==
    [Requested(ex, Request("cancel_all_orders", "", 0, FALSE)) EXCEPT !.open_orders = 0]

\* what an operation leaves: the exchange and the call's outcome
Outcome(ex, raised, exc, order) ==
    [exchange |-> ex,
     result |-> [raised |-> raised, exc |-> exc, order |-> order, adj_qty |-> 0]]

Raises(ex, exc) == Outcome(ex, TRUE, exc, NoOrder)
ReturnsNone(ex) == Outcome(ex, FALSE, "", NoOrder)

\* the test behind _ensure_qty_price: TradeExecutor compares the text with
\* 0 (adj_qty <= 0: '<=' between str and int is a TypeError), Hedger
\* compares float(adj_qty)
QtyNotPositive(executor, adj_qty) ==
    IF executor = "TradeExecutor" THEN [exc |-> "TypeError", holds |-> FALSE]
    ELSE [exc |-> "", holds |-> FloatOfQty(adj_qty) <= 0]

\* the stop orders behind an accepted opening order: every failure is
\* caught
WithStops(ex, c, order) ==
    IF c.stops THEN Requested(ex, Request("set_take_profit_stop_loss", order.side,
                                          order.quantity, FALSE))
    ELSE ex

\* create_market_order and what follows it in open_long / open_short
OpenSubmit(c, ex, order) ==
    IF ~c.order_ok THEN Raises(ex, "ClientError")
    ELSE Outcome(WithStops(Filled(ex, order), c, order), FALSE, "", order)

\* the quantity test of open_long / open_short
OpenTested(c, ex, adj_qty, test) ==
    IF test.exc # "" THEN Raises(ex, test.exc)
    ELSE IF test.holds THEN Raises(ex, "ValueError")
    ELSE OpenSubmit(c, ex, Request("create_market_order",
                                   IF c.fn = "open_long" THEN "BUY" ELSE "SELL",
                                   FloatOfQty(adj_qty), FALSE))

\* open_long / open_short behind the leverage change
OpenEnsured(c, ex) ==
    IF ~c.ticker_ok THEN Raises(ex, "ClientError")
    ELSE OpenTested(c, ex, EnsureQtyPrice(c.quantity, c.price, c.filters).adj_qty,
                    QtyNotPositive(c.executor,
                        EnsureQtyPrice(c.quantity, c.price, c.filters).adj_qty))

\* open_long(symbol, quantity, leverage, take_profit, stop_loss) and
\* open_short: the leverage change (a failure is caught), the quantity,
\* the market order
OpenPosition(c, ex) ==
    OpenEnsured(c, IF c.leverage > 1
                   THEN Requested(ex, Request("change_leverage", "", c.leverage, FALSE))
                   ELSE ex)

\* the market order of close_position and close_position_partial
CloseSubmit(c, ex, order) ==
    IF ~c.order_ok THEN Raises(ex, "ClientError")
    ELSE Outcome(Filled(ex, order), FALSE, "", order)

\* the quantity test of close_position and close_position_partial: a
\* quantity that is not positive is skipped
CloseTested(c, ex, amt, adj_qty, test) ==
    IF test.exc # "" THEN Raises(ex, test.exc)
    ELSE IF test.holds THEN ReturnsNone(ex)
    ELSE CloseSubmit(c, ex, Request("create_market_order",
                                    IF amt > 0 THEN "SELL" ELSE "BUY",
                                    FloatOfQty(adj_qty),
                                    c.fn = "close_position_partial" /\ c.executor = "Hedger"))

\* the amount to close, quantized and tested
CloseEnsured(c, ex, amt, amount) ==
    IF ~c.ticker_ok THEN Raises(ex, "ClientError")
    ELSE CloseTested(c, ex, amt, EnsureQtyPrice(amount, c.price, c.filters).adj_qty,
                     QtyNotPositive(c.executor,
                         EnsureQtyPrice(amount, c.price, c.filters).adj_qty))

\* close_position(symbol): nothing without a position; else the open
\* orders are cancelled (a failure is caught) and the whole position is
\* closed with a market order on the opposite side
ClosePosition(c, ex) ==
    IF ex.positionAmt = 0 THEN ReturnsNone(ex)
    ELSE CloseEnsured(c, IF c.cancel_ok THEN Cancelled(ex) ELSE ex,
                      ex.positionAmt, Whole(Abs(ex.positionAmt)))

\* close_position_partial(symbol, percentage): ValueError unless
\* 0 < percentage <= 1; nothing without a position; else
\* abs(positionAmt) * percentage is closed
ClosePositionPartial(c, ex) ==
    IF ~(0 < c.percentage.num /\ c.percentage.num <= c.percentage.den)
    THEN Raises(ex, "ValueError")
    ELSE IF ex.positionAmt = 0 THEN ReturnsNone(ex)
    ELSE CloseEnsured(c, ex, ex.positionAmt,
                      Frac(Abs(ex.positionAmt) * c.percentage.num, c.percentage.den))

-----------------------------------------------------------------------------
(* The executors as a state machine: a call, its filters and the answers of *)
(* the exchange are drawn, then the operation runs.                         *)

Executors == {"TradeExecutor", "Hedger"}

FilterSets ==
    [stepSize : {1, 2}, minQty : {0, 1, 2}, maxQty : {MaxQty + 2},
     minNotional : {0, MaxNotional}]

\* ticker prices
Prices == {1, 3}

\* what every call is made with: the executor, the symbol's filters, the
\* ticker price and whether get_ticker and create_market_order succeed
Environments ==
    [executor : Executors, filters : FilterSets, price : Prices,
     ticker_ok : BOOLEAN, order_ok : BOOLEAN]

TradeCall(fn, env, quantity, leverage, stops, cancel_ok, percentage, positionAmt,
          open_orders) ==
    [fn |-> fn, executor |-> env.executor, filters |-> env.filters, price |-> env.price,
     ticker_ok |-> env.ticker_ok, order_ok |-> env.order_ok, quantity |-> quantity,
     leverage |-> leverage, stops |-> stops, cancel_ok |-> cancel_ok,
     percentage |-> percentage, positionAmt |-> positionAmt, open_orders |-> open_orders]

OpenCalls(env) ==
    {TradeCall(fn, env, Whole(q), lev, stops, TRUE, Frac(1, 1), 0, 0) :
        fn \in {"open_long", "open_short"}, q \in 0..MaxQty, lev \in {1, 3},
        stops \in BOOLEAN}

CloseCalls(env) ==
    {TradeCall("close_position", env, Whole(0), 1, FALSE, cancel_ok, Frac(1, 1), amt, open) :
        cancel_ok \in BOOLEAN, amt \in (0 - MaxQty)..MaxQty, open \in {0, 2}}

PartialCalls(env) ==
    {TradeCall("close_position_partial", env, Whole(0), 1, FALSE, TRUE, Frac(k, PctSteps), amt, 0) :
        k \in 0..(PctSteps + 1), amt \in (0 - MaxQty)..MaxQty}

EnsureCalls(env) ==
    {TradeCall("_ensure_qty_price", env, Whole(q), 1, FALSE, TRUE, Frac(1, 1), 0, 0) :
        q \in 0..MaxQty}

InitTrade ==
    /\ \E env \in Environments :
          call \in OpenCalls(env) \cup CloseCalls(env) \cup PartialCalls(env)
                   \cup EnsureCalls(env)
    /\ exchange = [positionAmt |-> call.positionAmt, open_orders |-> call.open_orders,
                   requests |-> <<>>]
    /\ result = NoResult
    /\ payloads = <<>>
    /\ max_history = 0
    /\ history_file = <<>>
    /\ saved = 0
    /\ data = EmptyData
    /\ price_dp = 2
    /\ block = NoBlock
    /\ decision_history = <<>>
    /\ max_per_symbol = 0
    /\ grouped = <<>>
    /\ pc = "input"

\* the frame of an executor call
Traded(out) ==
    /\ exchange' = out.exchange
    /\ result' = out.result
    /\ pc' = "done"
    /\ UNCHANGED <<payloads, max_history, history_file, saved, data, price_dp, block,
                   decision_history, max_per_symbol, grouped, call>>

OpenLong ==
    /\ pc = "input" /\ call.fn = "open_long"
    /\ Traded(OpenPosition(call, exchange))

OpenShort ==
    /\ pc = "input" /\ call.fn = "open_short"
    /\ Traded(OpenPosition(call, exchange))

CloseWhole ==
    /\ pc = "input" /\ call.fn = "close_position"
    /\ Traded(ClosePosition(call, exchange))

ClosePartial ==
    /\ pc = "input" /\ call.fn = "close_position_partial"
    /\ Traded(ClosePositionPartial(call, exchange))

\* _ensure_qty_price called on its own: get_ticker may raise
EnsureQty ==
    /\ pc = "input" /\ call.fn = "_ensure_qty_price"
    /\ Traded(IF ~call.ticker_ok THEN Raises(exchange, "ClientError")
              ELSE [exchange |-> exchange,
                    result |-> [raised |-> FALSE, exc |-> "", order |-> NoOrder,
                                adj_qty |-> FloatOfQty(EnsureQtyPrice(call.quantity,
                                                call.price, call.filters).adj_qty)]])

NextTrade == OpenLong \/ OpenShort \/ CloseWhole \/ ClosePartial \/ EnsureQty

SpecTrade == InitTrade /\ [][NextTrade]_vars

\* the market orders among the requests the exchange accepted
MarketOrders == SelectSeq(exchange.requests, LAMBDA r : r.op = "create_market_order")

\* the quantity the claims call quantized: quantize_qty of the quantity,
\* raised for the minimum notional
Quantized(quantity) ==
    FloatOfQty(EnsureQtyPrice(quantity, call.price, call.filters).adj_qty)

\* the exchange answered every request of the call
Answered == call.ticker_ok /\ call.order_ok /\ call.cancel_ok

\* C24: TradeExecutor.open_long / open_short with a quantity whose
\* quantized value is positive submits exactly one market order (BUY for
\* long, SELL for short) for the quantized quantity and returns it;
\* ValueError is raised only when the quantized quantity is <= 0.
C24_OpenSubmitsOne ==
    (/\ pc = "done" /\ call.fn \in {"open_long", "open_short"}
     /\ call.executor = "TradeExecutor" /\ Answered) =>
        /\ Quantized(call.quantity) > 0 =>
              /\ ~result.raised
              /\ MarketOrders = <<result.order>>
              /\ result.order.side = (IF call.fn = "open_long" THEN "BUY" ELSE "SELL")
              /\ result.order.quantity = Quantized(call.quantity)
        /\ (result.raised /\ result.exc = "ValueError") =>
              Quantized(call.quantity) <= 0

\* C25: TradeExecutor.close_position on a non-zero position cancels the
\* open orders and then submits one market order on the opposite side for
\* the quantized absolute amount; a call never ends with the orders
\* cancelled and no closing order; without a position nothing is cancelled
\* or submitted.
C25_CloseCancelsThenCloses ==
    (/\ pc = "done" /\ call.fn = "close_position"
     /\ call.executor = "TradeExecutor" /\ Answered) =>
        IF call.positionAmt = 0 THEN exchange.requests = <<>>
        ELSE /\ Len(exchange.requests) = 2
             /\ exchange.requests[1].op = "cancel_all_orders"
             /\ exchange.requests[2] =
                   Request("create_market_order",
                           IF call.positionAmt > 0 THEN "SELL" ELSE "BUY",
                           Quantized(Whole(Abs(call.positionAmt))), FALSE)

\* C26: whenever minNotional is greater than 0, the quantity
\* _ensure_qty_price returns, multiplied by the price used, is at least
\* minNotional.
C26_MinNotionalMet ==
    (/\ pc = "done" /\ call.fn = "_ensure_qty_price" /\ ~result.raised
     /\ call.filters.minNotional > 0) =>
        result.adj_qty * call.price >= call.filters.minNotional

\* C27: close_position_partial(symbol, p) with 0 < p <= 1 never submits an
\* order whose quantity exceeds the absolute size of the position.
C27_PartialWithinPosition ==
    (/\ pc = "done" /\ call.fn = "close_position_partial"
     /\ 0 < call.percentage.num /\ call.percentage.num <= call.percentage.den) =>
        \A i \in 1..Len(MarketOrders) :
            MarketOrders[i].quantity <= Abs(call.positionAmt)

-----------------------------------------------------------------------------
(* The bot's cycle: execute_decision and run_cycle (src/src/main.py).  A    *)
(* decision is [action, confidence, leverage, open_percent, reduce_percent, *)
(* stops, well_formed]; well_formed tells whether it has the keys read with *)
(* [] (leverage, open_percent, reason).  The bot trades through             *)
(* TradeExecutor.  Reading the account summary is a request to the          *)
(* exchange like any other.                                                 *)

\* a decision without the key 'confidence'
AbsentConf == [k |-> "absent", v |-> 0, s |-> <<>>]

\* the label branch of execute_decision: conf_str is confidence.upper()
ExecLabel(conf_str) ==
    IF conf_str = HIGH THEN NumConf(80)
    ELSE IF conf_str = MEDIUM THEN NumConf(60)
    ELSE IF conf_str = LOW THEN NumConf(40)
    ELSE NumConf(50)

\* confidence as execute_decision takes it: decision.get('confidence', 0.5),
\* a str replaced by its label's number, 0.5 for any other text
ExecConfidence(c) ==
    CASE c.k = "absent" -> NumConf(50)
      [] c.k = "str" -> ExecLabel(Upper(c.s))
      [] OTHER -> c

\* confidence < 0.5: false for nan, a TypeError for None or a list
BelowHalf(c) ==
    CASE c.k = "fin" -> [exc |-> "", holds |-> 2 * c.v < CONF_SCALE]
      [] c.k = "bool" -> [exc |-> "", holds |-> c.v = 0]
      [] c.k = "ninf" -> [exc |-> "", holds |-> TRUE]
      [] c.k \in {"nan", "pinf"} -> [exc |-> "", holds |-> FALSE]
      [] OTHER -> [exc |-> "TypeError", holds |-> FALSE]

\* a gate that stops CLOSE as well
Blocked_CloseToo(low, action) == low

\* the gate of execute_decision: confidence < 0.5 and action != 'CLOSE'
Blocked(low, action) == low /\ action # "CLOSE"

\* what execute_decision leaves: the exchange, the exception that escapes
\* and whether trade_count was counted up
Executed(ex, raised, exc, traded) ==
    [exchange |-> ex, raised |-> raised, exc |-> exc, traded |-> traded]

Skipped(ex) == Executed(ex, FALSE, "", FALSE)

\* a call of the executor whose exception is caught and printed; the trade
\* is counted when it returned
Swallowed(out) == Executed(out.exchange, FALSE, "", ~out.result.raised)

\* a call of the executor whose exception the outer except catches; no
\* trade is counted
Attempted(out) == Executed(out.exchange, FALSE, "", FALSE)

\* the call execute_decision makes on the executor
ExecCall(fn, d, env, quantity, percentage, ex) ==
    TradeCall(fn, env.trade, quantity, d.leverage, d.stops, env.cancel_ok, percentage,
              ex.positionAmt, ex.open_orders)

\* _open_long / _open_short: no equity, a missing key (KeyError, caught by
\* execute_decision), a quantity that is not positive or a failed risk
\* check end the call; else the executor opens
\*   quantity = leverage * total_equity * open_percent / 100 / current_price
ExecOpen(fn, d, env, ex) ==
    IF env.equity <= 0 THEN Skipped(ex)
    ELSE IF ~d.well_formed THEN Skipped(ex)
    ELSE IF d.leverage * env.equity * d.open_percent <= 0 THEN Skipped(ex)
    ELSE IF ~env.risk_ok THEN Skipped(ex)
    ELSE Swallowed(OpenPosition(
            ExecCall(fn, d, env,
                     Frac(d.leverage * env.equity * d.open_percent, 100 * env.current_price),
                     Frac(1, 1), ex),
            ex))

\* the PARTIAL_CLOSE branch: reduce_percent must read as a number in
\* (0, 100]
ExecPartial(d, env, ex) ==
    IF d.reduce_percent.k # "fin" \/ d.reduce_percent.v <= 0 \/ d.reduce_percent.v > 100
    THEN Skipped(ex)
    ELSE Attempted(ClosePositionPartial(
            ExecCall("close_position_partial", d, env, Whole(0),
                     Frac(d.reduce_percent.v, 100), ex),
            ex))

\* the branch of the action
ExecAction(d, env, ex) ==
    CASE d.action \in {"BUY_OPEN", "ADD_BUY_OPEN"} -> ExecOpen("open_long", d, env, ex)
      [] d.action \in {"SELL_OPEN", "ADD_SELL_OPEN"} -> ExecOpen("open_short", d, env, ex)
      [] d.action = "CLOSE" ->
            Swallowed(ClosePosition(
                ExecCall("close_position", d, env, Whole(0), Frac(1, 1), ex), ex))
      [] d.action = "PARTIAL_CLOSE" -> ExecPartial(d, env, ex)
      [] OTHER -> Skipped(ex)

\* the try block of execute_decision behind get_account_summary
ExecTry(d, env, ex) ==
    IF ~env.account_ok THEN Skipped(ex)
    ELSE IF env.current_price = 0 THEN Skipped(ex)
    ELSE ExecAction(d, env, ex)

\* execute_decision behind the comparison confidence < 0.5
ExecGated(d, env, ex, low) ==
    IF low.exc # "" THEN Executed(ex, TRUE, low.exc, FALSE)
    ELSE IF Blocked(low.holds, d.action) THEN Skipped(ex)
    ELSE ExecTry(d, env, Requested(ex, Request("get_account_summary", "", 0, FALSE)))

\* execute_decision(symbol, decision, market_data)
ExecuteDecision(d, env, ex) ==
    ExecGated(d, env, ex, BelowHalf(ExecConfidence(d.confidence)))

\* the bot between two steps of run_cycle: the exchange, the history in
\* memory and on disk, the save_decision calls so far, the exception that
\* escaped and the steps taken
Running(ex, history, file, count, raised, exc, steps) ==
    [exchange |-> ex, history |-> history, file |-> file, saved |-> count,
     raised |-> raised, exc |-> exc, steps |-> steps]

Failed(st, exc) ==
    Running(st.exchange, st.history, st.file, st.saved, TRUE, exc, st.steps)

\* save_decision(symbol, decision, market_data, position) of the
\* multi-symbol branch: KeyError for a decision without its keys
CycleSaved(c, st, stored) ==
    IF ~c.decision.well_formed
    THEN Failed(Running(st.exchange, st.history, st.file, st.saved + 1, FALSE, "",
                        st.steps), "KeyError")
    ELSE Running(st.exchange, stored.history, stored.file, st.saved + 1, FALSE, "",
                 Append(st.steps, "save"))

\* one symbol of the multi-symbol branch: execute_decision, then
\* save_decision
CycleExecuted(c, st, out) ==
    IF out.raised
    THEN Failed(Running(out.exchange, st.history, st.file, st.saved, FALSE, "", st.steps),
                out.exc)
    ELSE CycleSaved(c, Running(out.exchange, st.history, st.file, st.saved, FALSE, "",
                               Append(st.steps, "execute")),
                    Stored(st.history, st.file, c.max_history,
                           DictLine(MaxFile + st.saved + 1), TRUE))

RECURSIVE MultiSymbols(_, _, _)
\* the loop over all_decisions: the first k decisions, until one raises
MultiSymbols(k, c, st) ==
    IF k = 0 \/ st.raised THEN st
    ELSE MultiSymbols(k - 1, c,
            CycleExecuted(c, st, ExecuteDecision(c.decision, c.env, st.exchange)))

\* the single-symbol branch: the decision is obtained, then
\* save_decision(symbol, decision, market_data) is called without its
\* fourth positional argument position: TypeError
SingleSymbol(c, st) ==
    Failed(Running(st.exchange, st.history, st.file, st.saved, FALSE, "",
                   Append(st.steps, "analyze")),
           "TypeError")

\* the two branches of run_cycle behind the market data
CycleBranch(c, st) ==
    IF c.symbols > 1
    THEN MultiSymbols(c.decided, c,
                      Running(st.exchange, st.history, st.file, st.saved, FALSE, "",
                              Append(st.steps, "analyze")))
    ELSE SingleSymbol(c, st)

\* run_cycle(): the account summary, then the symbols; fetching the klines
\* of a symbol raises NameError when the exchange fails (the except branch
\* of get_multi_timeframe_data)
RunCycle(c, st) ==
    IF c.symbols = 0
    THEN Running(Requested(st.exchange, Request("get_account_summary", "", 0, FALSE)),
                 st.history, st.file, st.saved, FALSE, "", st.steps)
    ELSE IF ~c.klines_ok
    THEN Failed(Running(Requested(st.exchange,
                                  Request("get_account_summary", "", 0, FALSE)),
                        st.history, st.file, st.saved, FALSE, "", st.steps),
                "NameError")
    ELSE CycleBranch(c, Running(Requested(st.exchange,
                                          Request("get_account_summary", "", 0, FALSE)),
                                st.history, st.file, st.saved, FALSE, "", st.steps))

-----------------------------------------------------------------------------
(* The cycle as a state machine: a decision, the configuration and the      *)
(* answers of the exchange are drawn, then execute_decision or run_cycle    *)
(* runs.                                                                    *)

\* run_cycle over 0..MaxSymbols configured symbols
MaxSymbols == 2

Actions ==
    {"BUY_OPEN", "ADD_BUY_OPEN", "SELL_OPEN", "ADD_SELL_OPEN", "CLOSE", "HOLD",
     "PARTIAL_CLOSE", "WAIT"}

ExecConfidences ==
    {NumConf(30), NumConf(50), NumConf(70), StrConf(LOW), StrConf(<<"l", "o", "w">>),
     StrConf(HIGH), StrConf(<<" ", "l", "o", "w">>), StrConf(<<"0", ".", "3">>),
     NoneConf, AbsentConf, SpecialConf("nan"), BoolConf(FALSE)}

Decision(action, confidence, sizing, well_formed) ==
    [action |-> action, confidence |-> confidence, leverage |-> sizing.leverage,
     open_percent |-> sizing.open_percent, reduce_percent |-> sizing.reduce_percent,
     stops |-> sizing.stops, well_formed |-> well_formed]

Sizings ==
    {[leverage |-> 1, open_percent |-> 50, reduce_percent |-> Fin(50), stops |-> FALSE],
     [leverage |-> 3, open_percent |-> 100, reduce_percent |-> Fin(150), stops |-> TRUE],
     [leverage |-> 3, open_percent |-> 0, reduce_percent |-> [k |-> "none", v |-> 0],
      stops |-> FALSE]}

Decisions ==
    {Decision(a, c, z, w) : a \in Actions, c \in ExecConfidences, z \in Sizings,
                            w \in BOOLEAN}

\* the bot's executor and one symbol's filters and ticker
BotTrade(ticker_ok) ==
    [executor |-> "TradeExecutor",
     filters |-> [stepSize |-> 1, minQty |-> 1, maxQty |-> MaxQty + 2, minNotional |-> 0],
     price |-> 2, ticker_ok |-> ticker_ok, order_ok |-> TRUE]

ExecEnvs ==
    {[trade |-> BotTrade(t), cancel_ok |-> x, account_ok |-> a, equity |-> e,
      current_price |-> p, risk_ok |-> r] :
        t \in BOOLEAN, x \in BOOLEAN, a \in BOOLEAN, e \in {0, 8}, p \in {0, 2},
        r \in BOOLEAN}

ExecCalls ==
    {[fn |-> "execute_decision", decision |-> d, env |-> e, positionAmt |-> amt,
      symbols |-> 1, decided |-> 1, klines_ok |-> TRUE, max_history |-> MaxHistory] :
        d \in Decisions, e \in ExecEnvs, amt \in {0, 3}}

CycleCalls ==
    {[fn |-> "run_cycle", decision |-> d, env |-> e, positionAmt |-> 3,
      symbols |-> n, decided |-> k, klines_ok |-> ok, max_history |-> MaxHistory] :
        d \in {x \in Decisions : x.leverage = 1}, 
        e \in {x \in ExecEnvs : x.equity = 8 /\ x.current_price = 2 /\ x.risk_ok},
        n \in 0..MaxSymbols, k \in 0..MaxSymbols, ok \in BOOLEAN}

InitRun ==
    /\ call \in ExecCalls \cup {c \in CycleCalls : c.decided <= c.symbols}
    /\ exchange = [positionAmt |-> call.positionAmt, open_orders |-> 2, requests |-> <<>>]
    /\ result = NoResult
    /\ max_history = call.max_history
    /\ history_file = <<>>
    /\ decision_history = <<>>
    /\ saved = 0
    /\ payloads = <<>>
    /\ data = EmptyData
    /\ price_dp = 2
    /\ block = NoBlock
    /\ max_per_symbol = 0
    /\ grouped = <<>>
    /\ pc = "input"

\* the frame of execute_decision
ExecutedCall(out) ==
    /\ exchange' = out.exchange
    /\ result' = [raised |-> out.raised, exc |-> out.exc, traded |-> out.traded,
                  steps |-> <<>>]
    /\ pc' = "done"
    /\ UNCHANGED <<payloads, max_history, history_file, saved, data, price_dp, block,
                   decision_history, max_per_symbol, grouped, call>>

DoExecuteDecision ==
    /\ pc = "input" /\ call.fn = "execute_decision"
    /\ ExecutedCall(ExecuteDecision(call.decision, call.env, exchange))

\* the frame of run_cycle
CycleRun(st) ==
    /\ exchange' = st.exchange
    /\ decision_history' = st.history
    /\ history_file' = st.file
    /\ saved' = st.saved
    /\ result' = [raised |-> st.raised, exc |-> st.exc, traded |-> FALSE,
                  steps |-> st.steps]
    /\ pc' = "done"
    /\ UNCHANGED <<payloads, max_history, data, price_dp, block, max_per_symbol, grouped,
                   call>>

DoRunCycle ==
    /\ pc = "input" /\ call.fn = "run_cycle"
    /\ CycleRun(RunCycle(call, Running(exchange, decision_history, history_file, saved,
                                       FALSE, "", <<>>)))

NextRun == DoExecuteDecision \/ DoRunCycle

SpecRun == InitRun /\ [][NextRun]_vars

\* C22: in single-symbol mode each run_cycle obtains a decision for the
\* symbol, saves it to the decision history and then executes it, and the
\* cycle completes without raising.
C22_SingleSymbolCycle ==
    (pc = "done" /\ call.fn = "run_cycle" /\ call.symbols = 1 /\ call.klines_ok
        /\ call.decision.well_formed) =>
        /\ ~result.raised
        /\ result.steps = <<"analyze", "save", "execute">>
        /\ Len(decision_history) = 1

\* the confidence the claim calls normalized is below 0.5: a number below
\* 0.5, or the label LOW
ClaimedLow(c) ==
    \/ c.k = "fin" /\ c.v < 50
    \/ c.k = "bool" /\ c.v = 0
    \/ c.k = "str" /\ Upper(c.s) = LOW

\* C23: execute_decision sends the exchange no request at all, so no order
\* of any kind, when the normalized confidence (HIGH/MEDIUM/LOW mapped to
\* 0.8/0.6/0.4, other strings 0.5) is below 0.5 and the action is not
\* CLOSE; a CLOSE with low confidence is not blocked: it reaches the
\* executor, which cancels the open orders of a non-zero position.
C23_LowConfidenceGate ==
    (pc = "done" /\ call.fn = "execute_decision" /\ ClaimedLow(call.decision.confidence)) =>
        IF call.decision.action # "CLOSE"
        THEN /\ exchange.requests = <<>>
             /\ exchange.positionAmt = call.positionAmt
             /\ ~result.raised
        ELSE (/\ call.env.account_ok /\ call.env.current_price # 0
              /\ call.env.cancel_ok /\ call.positionAmt # 0) =>
                \E i \in 1..Len(exchange.requests) :
                    exchange.requests[i].op = "cancel_all_orders"

\* a BUY_OPEN with the label "low" left the exchange untouched
C23_Witness ==
    /\ pc = "done" /\ call.fn = "execute_decision"
    /\ call.decision.action = "BUY_OPEN"
    /\ call.decision.confidence = StrConf(<<"l", "o", "w">>)
    /\ call.env.account_ok /\ call.env.equity > 0 /\ call.env.current_price # 0
    /\ call.env.risk_ok /\ call.decision.well_formed /\ call.decision.open_percent > 0
    /\ exchange.requests = <<>>

-----------------------------------------------------------------------------
(* MarketDataManager.get_multi_timeframe_data (src/src/data/market_data.py). *)
(* An interval is what the exchange and the indicator helpers do for it:    *)
(* [rows, fetch_ok, compute_ok]: the number of klines returned, whether     *)
(* get_klines returns and whether the indicator helpers return.  An entry   *)
(* is [klines, indicators, dataframe].                                      *)

\* up to MaxIntervals requested intervals
MaxIntervals == 3

\* len(close) < 50: the zeroed indicators
INDICATOR_MIN_ROWS == 50

Interval(rows, fetch_ok, compute_ok) ==
    [rows |-> rows, fetch_ok |-> fetch_ok, compute_ok |-> compute_ok]

IntervalKinds ==
    {Interval(0, TRUE, TRUE), Interval(20, TRUE, TRUE), Interval(50, TRUE, TRUE),
     Interval(50, TRUE, FALSE), Interval(0, FALSE, TRUE)}

\* the entry the except branch is written to store
EmptyEntry == [klines |-> 0, indicators |-> "zeros", dataframe |-> "None"]

\* _compute_indicators(df): zeros for an empty or short frame
ComputeIndicators(rows) == IF rows < INDICATOR_MIN_ROWS THEN "zeros" ELSE "computed"

\* the try block raises: get_klines fails, or a helper does on a frame long
\* enough to be computed
TryFails(iv) == ~iv.fetch_ok \/ (iv.rows >= INDICATOR_MIN_ROWS /\ ~iv.compute_ok)

\* one pass of the loop: the entry of the try block, or the except branch,
\* which names zeros, a local of _compute_indicators: NameError
Fetched(acc, iv) ==
    IF TryFails(iv) THEN [raised |-> TRUE, exc |-> "NameError", data |-> acc.data]
    ELSE [raised |-> FALSE, exc |-> "",
          data |-> Append(acc.data, [klines |-> iv.rows,
                                     indicators |-> ComputeIndicators(iv.rows),
                                     dataframe |-> "frame"])]

RECURSIVE GetMultiTimeframeData(_, _)
\* get_multi_timeframe_data(symbol, intervals): the loop, left by the first
\* exception that escapes
GetMultiTimeframeData(intervals, acc) ==
    IF intervals = <<>> \/ acc.raised THEN acc
    ELSE GetMultiTimeframeData(Tail(intervals), Fetched(acc, Head(intervals)))

InitFetch ==
    /\ \E n \in 0..MaxIntervals : \E ivs \in [1..n -> IntervalKinds] :
          call = [fn |-> "get_multi_timeframe_data", intervals |-> ivs]
    /\ result = NoResult
    /\ exchange = NoExchange
    /\ payloads = <<>>
    /\ max_history = 0
    /\ history_file = <<>>
    /\ saved = 0
    /\ data = EmptyData
    /\ price_dp = 2
    /\ block = NoBlock
    /\ decision_history = <<>>
    /\ max_per_symbol = 0
    /\ grouped = <<>>
    /\ pc = "input"

FetchTimeframes ==
    /\ pc = "input"
    /\ result' = GetMultiTimeframeData(call.intervals,
                                       [raised |-> FALSE, exc |-> "", data |-> <<>>])
    /\ pc' = "done"
    /\ UNCHANGED <<payloads, max_history, history_file, saved, exchange, data, price_dp,
                   block, decision_history, max_per_symbol, grouped, call>>

NextFetch == FetchTimeframes

SpecFetch == InitFetch /\ [][NextFetch]_vars

\* C28: get_multi_timeframe_data returns an entry for every requested
\* interval; an interval whose fetch or computation fails gets the empty
\* entry (no klines, zeroed indicators, dataframe None), nothing is raised
\* and the remaining intervals are processed.
C28_EntryPerInterval ==
    pc = "done" =>
        /\ ~result.raised
        /\ Len(result.data) = Len(call.intervals)
        /\ \A i \in 1..Len(call.intervals) :
              TryFails(call.intervals[i]) => result.data[i] = EmptyEntry

====
